---- MODULE Spec2Model ----
(***************************************************************************)
(* Model of the profile registry of the NotebookLM skill                   *)
(* (scripts/profile_manager.py): the in-memory registry of a               *)
(* ProfileManager, the persisted registry document profiles.json, the      *)
(* profile directories under data/profiles/ and the wall clock; of its     *)
(* startup with the legacy migration, step by step; and of the             *)
(* AuthManager (scripts/auth_manager.py) with its setup_auth and            *)
(* validate_auth calls.                                                    *)
(*                                                                         *)
(* Encoding.  Strings the code computes on (names, ids) are sequences of   *)
(* one-character strings.  An optional value is a sequence of length 0     *)
(* (Python None / key absent) or 1 (<<v>>).                                *)
(***************************************************************************)
EXTENDS Integers, Sequences, FiniteSets, TLC

VARIABLES
    active_profile,   \* ProfileManager.active_profile : optional id
    profiles,         \* ProfileManager.profiles : sequence of profile records
    profiles_file,    \* data/profiles.json : [exists, active_profile, profiles]
    fs_profiles,      \* data/profiles/ : directory name -> set of entries in it
    now,              \* value returned by time.time()
    n_updates,        \* number of update_profile calls made so far
    last,             \* the call made by the last step, with the registry before it
    data_root,        \* data/ outside the registry: legacy artifacts, data/profiles/ present
    pc,               \* position of the running startup or authentication call
    auth_store,       \* the authenticated profile's state.json and auth_info.json
    browser,          \* the Playwright driver and the browser context
    peer,             \* a second process on the same data root, when there is one
    exit_code,        \* the exit status of the command line that ended last, if any
    library           \* the NotebookLibrary: its notebooks, active_notebook_id and library.json

vars == <<active_profile, profiles, profiles_file, fs_profiles, now, n_updates, last,
          data_root, pc, auth_store, browser, peer, exit_code, library>>

\* what a registry call leaves alone
outside == <<data_root, pc, auth_store, browser, peer, exit_code, library>>

\* ---------------------------------------------------------------- bounds
MaxTime == 2          \* the clock stops advancing here
MaxUpdates == 1       \* no update_profile call beyond this many

\* ---------------------------------------------------------------- values
None == <<>>
Some(v) == <<v>>

\* no NotebookLibrary has been constructed
NoLibrary ==
    [ notebooks |-> <<>>, active_notebook_id |-> None,
      file |-> [ exists |-> FALSE, notebooks |-> <<>>, active_notebook_id |-> None ] ]

DefaultId == <<"d", "e", "f", "a", "u", "l", "t">>
DefaultName == <<"D", "e", "f", "a", "u", "l", "t">>

\* names handed to create_profile
Names == { <<"A">>, <<"a">>, <<"B", " ", "_">> }

\* str.lower() on the characters that occur in Names
Lower(c) ==
    CASE c = "A" -> "a"
      [] c = "B" -> "b"
      [] c = "D" -> "d"
      [] OTHER -> c

\* str.replace(old, new) for one-character old and new
Replace(s, old, new) == [i \in 1..Len(s) |-> IF s[i] = old THEN new ELSE s[i]]

\* name.lower().replace(" ", "-").replace("_", "-")
Slug(name) ==
    Replace(Replace([i \in 1..Len(name) |-> Lower(name[i])], " ", "-"), "_", "-")

\* ids a caller can pass: every id create can derive, and the migrated one
Ids == { Slug(n) : n \in Names } \cup { DefaultId }

\* keys of a profile record, as create_profile and the migration declare them
DeclaredKeys == { "id", "name", "email", "created_at", "authenticated_at", "last_validated" }

\* the record create_profile builds
Entry(profile_id, name, t) ==
    [ id |-> profile_id, name |-> name, email |-> None, created_at |-> t,
      authenticated_at |-> None, last_validated |-> None ]

\* ---------------------------------------------------------------- helpers
\* _find comparing the display name instead of the id
_find_by_name(ps, profile_id) ==
    IF \E i \in 1..Len(ps) : ps[i].name = profile_id
    THEN CHOOSE i \in 1..Len(ps) :
            /\ ps[i].name = profile_id
            /\ \A j \in 1..(i - 1) : ps[j].name # profile_id
    ELSE 0

\* _find: index of the first record with this id, 0 when there is none
_find(ps, profile_id) ==
    IF \E i \in 1..Len(ps) : ps[i].id = profile_id
    THEN CHOOSE i \in 1..Len(ps) :
            /\ ps[i].id = profile_id
            /\ \A j \in 1..(i - 1) : ps[j].id # profile_id
    ELSE 0

\* the filter with its test inverted: keeps the records it should drop
RECURSIVE WithoutId_inverted(_, _)
WithoutId_inverted(ps, profile_id) ==
    IF ps = <<>> THEN <<>>
    ELSE IF Head(ps).id = profile_id
         THEN <<Head(ps)>> \o WithoutId_inverted(Tail(ps), profile_id)
         ELSE WithoutId_inverted(Tail(ps), profile_id)

\* [p for p in self.profiles if p["id"] != profile_id]
RECURSIVE WithoutId(_, _)
WithoutId(ps, profile_id) ==
    IF ps = <<>> THEN <<>>
    ELSE IF Head(ps).id # profile_id
         THEN <<Head(ps)>> \o WithoutId(Tail(ps), profile_id)
         ELSE WithoutId(Tail(ps), profile_id)

\* _save writing the profiles but not the active pointer
_save_profiles_only(act, ps) == [ exists |-> TRUE, active_profile |-> None, profiles |-> ps ]

\* a save that rewrites the profile list and leaves the document's pointer
_save_keep_active(act, ps) ==
    [ exists |-> TRUE,
      active_profile |-> IF profiles_file.exists THEN profiles_file.active_profile ELSE act,
      profiles |-> ps ]

\* _save: the whole document is rewritten from memory
_save(act, ps) == [ exists |-> TRUE, active_profile |-> act, profiles |-> ps ]

\* _load: the registry read from the document, empty when there is none
_load(doc) ==
    IF doc.exists
    THEN [ active_profile |-> doc.active_profile, profiles |-> doc.profiles ]
    ELSE [ active_profile |-> None, profiles |-> <<>> ]

\* the directory name "browser_state", as a name under data/profiles/
BrowserStateName == <<"b", "r", "o", "w", "s", "e", "r", "_", "s", "t", "a", "t", "e">>

\* paths["browser_state_dir"].mkdir(parents=True, exist_ok=True); for the
\* empty id PROFILES_DIR / "" is PROFILES_DIR, and the directory made is
\* data/profiles/browser_state
MkdirBrowserState(fs, profile_id) ==
    IF profile_id = <<>>
    THEN [d \in DOMAIN fs \cup {BrowserStateName} |-> IF d \in DOMAIN fs THEN fs[d] ELSE {}]
    ELSE IF profile_id \in DOMAIN fs
    THEN [fs EXCEPT ![profile_id] = @ \cup {"browser_state"}]
    ELSE [d \in DOMAIN fs \cup {profile_id} |->
            IF d = profile_id THEN {"browser_state"} ELSE fs[d]]

\* delete_profile without its rmtree
Rmtree_keep(fs, profile_id) == fs

\* shutil.rmtree(profile_dir) when it exists; for the empty id the tree
\* removed is data/profiles/ itself
Rmtree(fs, profile_id) ==
    IF profile_id = <<>> THEN <<>>
    ELSE [d \in DOMAIN fs \ {profile_id} |-> fs[d]]

\* ---------------------------------------------------------------- migration
LegacyArtifacts == { "browser_state", "auth_info.json", "library.json" }

\* the data roots a ProfileManager is first constructed on: the legacy
\* artifacts present, and what json.load finds in auth_info.json (whether it
\* parses, and its "authenticated_at")
DataRoots ==
    { [ legacy |-> {}, parses |-> FALSE, authenticated_at |-> None ],
      [ legacy |-> LegacyArtifacts, parses |-> TRUE, authenticated_at |-> Some(1) ] }

\* _migrate_legacy_layout on a data root without data/profiles/: the registry
\* document and the profiles directory it leaves behind
_migrate_legacy_layout(legacy, info, t) ==
    IF legacy = {}
    THEN [ profiles_file |-> [ exists |-> FALSE, active_profile |-> None, profiles |-> <<>> ],
           fs_profiles |-> <<>> ]
    ELSE LET profile_entry ==
                 [ Entry(DefaultId, DefaultName, t) EXCEPT
                     !.authenticated_at =
                         IF "auth_info.json" \in legacy /\ info.parses
                         THEN info.authenticated_at ELSE None ]
         IN [ profiles_file |-> [ exists |-> TRUE, active_profile |-> Some(DefaultId),
                                  profiles |-> <<profile_entry>> ],
              fs_profiles |-> [d \in {DefaultId} |-> legacy] ]

\* ---------------------------------------------------------------- update kwargs
AllKeys == DeclaredKeys \cup { "bogus" }

Absent == <<>>
Given(v) == <<v>>

KwargVals(k) ==
    CASE k = "id" -> Ids
      [] k = "name" -> { <<"Z">> }
      [] k = "email" -> { Some("e") }
      [] k = "created_at" -> { 0 }
      [] k = "authenticated_at" -> { Some(now) }
      [] k = "last_validated" -> { Some(now) }
      [] OTHER -> { 1 }

NoKwargs == [k \in AllKeys |-> Absent]

OneKwarg == UNION { { [NoKwargs EXCEPT ![k] = Given(v)] : v \in KwargVals(k) } : k \in AllKeys }

\* the **fields a caller passes: one declared key, or a display field together
\* with an undeclared key
Kwargs ==
    { f \in OneKwarg : f["name"] = Absent /\ f["email"] = Absent /\ f["bogus"] = Absent }
      \cup { [f EXCEPT !["bogus"] = Given(1)] : f \in { g \in OneKwarg : g["name"] # Absent } }

\* the loop without its "if k in entry" test: every key given is stored
ApplyFields_any(entry, fields) ==
    [k \in DOMAIN entry \cup { g \in DOMAIN fields : fields[g] # Absent } |->
        IF k \in DOMAIN fields /\ fields[k] # Absent THEN fields[k][1] ELSE entry[k]]

\* for k, v in fields.items(): if k in entry: entry[k] = v
ApplyFields(entry, fields) ==
    [k \in DOMAIN entry |->
        IF k \in DOMAIN fields /\ fields[k] # Absent THEN fields[k][1] ELSE entry[k]]

\* ---------------------------------------------------------------- state machine
\* the record of a call: its operation, the id it worked on, what it returned
\* ("entry", "True", "False", "None") or raised ("ValueError: ..."), the
\* fields an update was given, active_profile before a create or delete, the
\* profile sequence before a successful create, and whether it is a delete
\* that directly follows the successful create of this same id
Call(op, id, result, fields) ==
    [ op |-> op, id |-> id, result |-> result, fields |-> fields,
      pre_active |-> IF op \in {"create", "delete"} THEN active_profile ELSE None,
      pre_profiles |-> IF op = "create" /\ result = "entry" THEN profiles ELSE <<>>,
      after_create |-> op = "delete" /\ last.op = "create" /\ last.result = "entry" /\ last.id = id ]

\* ProfileManager() on a fresh data root or on a legacy flat layout
\* no startup and no authentication call is under way: data/profiles/ exists,
\* the data root holds no legacy artifact, no browser is open
NoProcess ==
    /\ peer = None
    /\ exit_code = None
    /\ library = NoLibrary
    /\ data_root = [ legacy |-> {}, info |-> [ parses |-> FALSE, authenticated_at |-> None ],
                     profiles_dir |-> TRUE, start_legacy |-> {},
                     start_info |-> [ parses |-> FALSE, authenticated_at |-> None ],
                     start_profiles_dir |-> TRUE, triggered |-> FALSE ]
    /\ pc = "idle"
    /\ auth_store = [ state_file |-> None, auth_info |-> None ]
    /\ browser = [ playwright |-> FALSE, context |-> FALSE ]

Init ==
    /\ NoProcess
    /\ \E root \in DataRoots :
        LET m == _migrate_legacy_layout(root.legacy, root, 1)
            r == _load(m.profiles_file)
        IN /\ now = 1
           /\ n_updates = 0
           /\ profiles_file = m.profiles_file
           /\ fs_profiles = m.fs_profiles
           /\ active_profile = r.active_profile
           /\ profiles = r.profiles
           /\ last = [ op |-> "init", id |-> <<>>, result |-> "None", fields |-> NoKwargs,
                       pre_active |-> None, pre_profiles |-> <<>>, after_create |-> FALSE ]

\* the assignment without its "is None" test
ActiveAfterCreate_always(act, profile_id) == Some(profile_id)

\* if self.active_profile is None: self.active_profile = profile_id
ActiveAfterCreate(act, profile_id) == IF act = None THEN Some(profile_id) ELSE act

\* the deleted active profile leaving no active profile behind
ActiveAfterDelete_none(act, remaining, profile_id) ==
    IF act = Some(profile_id) THEN None ELSE act

\* the fallback taking the last remaining record instead of the first
ActiveAfterDelete_last(act, remaining, profile_id) ==
    IF act = Some(profile_id)
    THEN (IF remaining # <<>> THEN Some(remaining[Len(remaining)].id) ELSE None)
    ELSE act

\* if self.active_profile == profile_id:
\*     self.active_profile = self.profiles[0]["id"] if self.profiles else None
ActiveAfterDelete(act, remaining, profile_id) ==
    IF act = Some(profile_id)
    THEN (IF remaining # <<>> THEN Some(remaining[1].id) ELSE None)
    ELSE act

\* create_profile(name)
create_profile(name) ==
    LET profile_id == Slug(name) IN
    IF _find(profiles, profile_id) # 0
    THEN \* raise ValueError(f"Profile '{profile_id}' already exists")
         /\ last' = Call("create", profile_id, "ValueError: already exists", NoKwargs)
         /\ UNCHANGED <<active_profile, profiles, profiles_file, fs_profiles, now, n_updates>>
    ELSE /\ fs_profiles' = MkdirBrowserState(fs_profiles, profile_id)
         /\ profiles' = Append(profiles, Entry(profile_id, name, now))
         /\ active_profile' = ActiveAfterCreate(active_profile, profile_id)
         /\ profiles_file' = _save(active_profile', profiles')
         /\ last' = Call("create", profile_id, "entry", NoKwargs)
         /\ UNCHANGED <<now, n_updates>>

\* delete_profile(profile_id)
delete_profile(profile_id) ==
    IF _find(profiles, profile_id) = 0
    THEN \* return False
         /\ last' = Call("delete", profile_id, "False", NoKwargs)
         /\ UNCHANGED <<active_profile, profiles, profiles_file, fs_profiles, now, n_updates>>
    ELSE /\ fs_profiles' = Rmtree(fs_profiles, profile_id)
         /\ profiles' = WithoutId(profiles, profile_id)
         /\ active_profile' = ActiveAfterDelete(active_profile, profiles', profile_id)
         /\ profiles_file' = _save(active_profile', profiles')
         /\ last' = Call("delete", profile_id, "True", NoKwargs)
         /\ UNCHANGED <<now, n_updates>>

\* set_active without its not-found test
set_active_unchecked(profile_id) ==
    /\ active_profile' = Some(profile_id)
    /\ profiles_file' = _save(active_profile', profiles)
    /\ last' = Call("set_active", profile_id, "None", NoKwargs)
    /\ UNCHANGED <<profiles, fs_profiles, now, n_updates>>

\* set_active(profile_id)
set_active(profile_id) ==
    IF _find(profiles, profile_id) = 0
    THEN \* raise ValueError(f"Profile not found: {profile_id}")
         /\ last' = Call("set_active", profile_id, "ValueError: not found", NoKwargs)
         /\ UNCHANGED <<active_profile, profiles, profiles_file, fs_profiles, now, n_updates>>
    ELSE /\ active_profile' = Some(profile_id)
         /\ profiles_file' = _save(active_profile', profiles)
         /\ last' = Call("set_active", profile_id, "None", NoKwargs)
         /\ UNCHANGED <<profiles, fs_profiles, now, n_updates>>

\* update_profile(profile_id, **fields)
update_profile(profile_id, fields) ==
    LET i == _find(profiles, profile_id) IN
    /\ n_updates < MaxUpdates
    /\ n_updates' = n_updates + 1
    /\ IF i = 0
       THEN \* raise ValueError(f"Profile not found: {profile_id}")
            /\ last' = Call("update", profile_id, "ValueError: not found", fields)
            /\ UNCHANGED <<active_profile, profiles, profiles_file, fs_profiles, now>>
       ELSE /\ profiles' = [profiles EXCEPT ![i] = ApplyFields(@, fields)]
            /\ profiles_file' = _save(active_profile, profiles')
            /\ last' = Call("update", profile_id, "None", fields)
            /\ UNCHANGED <<active_profile, fs_profiles, now>>

\* time passes between two calls
Tick ==
    /\ now < MaxTime
    /\ now' = now + 1
    /\ UNCHANGED <<active_profile, profiles, profiles_file, fs_profiles, n_updates, last>>
    /\ UNCHANGED outside

Create == (\E name \in Names : create_profile(name)) /\ UNCHANGED outside
Delete == (\E profile_id \in Ids : delete_profile(profile_id)) /\ UNCHANGED outside
SetActive == (\E profile_id \in Ids : set_active(profile_id)) /\ UNCHANGED outside
Update == (\E profile_id \in Ids, fields \in Kwargs : update_profile(profile_id, fields)) /\ UNCHANGED outside

Next == Create \/ Delete \/ SetActive \/ Update \/ Tick

Spec == Init /\ [][Next]_vars

\* ---------------------------------------------------------------- vocabulary of the properties
\* the step is a call (the clock stands still) of this operation
Called(op) == now' = now /\ last'.op = op

HasId(ps, profile_id) == \E i \in 1..Len(ps) : ps[i].id = profile_id

\* the registry, its document and the profile directories are as before
RegistryUntouched == UNCHANGED <<active_profile, profiles, profiles_file, fs_profiles>>

\* ---------------------------------------------------------------- C1
\* C1: in every reachable state no two profile records share an id.
\* update_profile accepts "id" among its fields, so it can give a record the
\* id of another one.
NoDuplicateIds ==
    \A i, j \in 1..Len(profiles) : i # j => profiles[i].id # profiles[j].id

\* ---------------------------------------------------------------- C2
\* C2: in every reachable state active_profile is null or the id of a record
\* in the registry.  update_profile can rename the active record and leave
\* the pointer behind.
ActiveProfileExists ==
    active_profile = None \/ HasId(profiles, active_profile[1])

\* ---------------------------------------------------------------- C3
\* C3: a successful create appends the new record at the end of the profile
\* sequence; it sets active_profile to the new id when active_profile was null
\* and leaves active_profile as it was otherwise.
CreateAppendsAndActivates ==
    [][ (Called("create") /\ last'.result = "entry") =>
            /\ Len(profiles') = Len(profiles) + 1
            /\ SubSeq(profiles', 1, Len(profiles)) = profiles
            /\ profiles'[Len(profiles')].id = last'.id
            /\ (active_profile = None => active_profile' = Some(last'.id))
            /\ (active_profile # None => active_profile' = active_profile)
      ]_vars

\* a second profile was created behind an active one, which stays active
CreatedBehindActive ==
    /\ last.op = "create" /\ last.result = "entry"
    /\ Len(profiles) >= 2
    /\ profiles[Len(profiles)].id = last.id
    /\ last.pre_active # None
    /\ active_profile = last.pre_active
    /\ active_profile # Some(last.id)

\* ---------------------------------------------------------------- C4
\* C4: when delete removes the active profile, active_profile becomes the id
\* of the first remaining record, or null when none remains, and the
\* remaining records keep their relative order.
DeleteActiveFallsBack ==
    [][ (Called("delete") /\ last'.result = "True" /\ active_profile = Some(last'.id)) =>
            /\ profiles' = SelectSeq(profiles, LAMBDA p : p.id # last'.id)
            /\ active_profile' =
                  IF Len(profiles') = 0 THEN None ELSE Some(profiles'[1].id)
      ]_vars

\* the active profile was deleted with two records remaining, and the pointer
\* moved to the first of them
DeletedActiveOfThree ==
    /\ last.op = "delete" /\ last.result = "True"
    /\ last.pre_active = Some(last.id)
    /\ Len(profiles) = 2
    /\ profiles[1].id # profiles[2].id
    /\ active_profile = Some(profiles[1].id)

\* ---------------------------------------------------------------- C5
\* C5: deleting a profile that is not the active one leaves active_profile
\* and every other record unchanged; deleting the only profile leaves
\* active_profile null.
DeleteFrame ==
    [][ (Called("delete") /\ last'.result = "True") =>
            /\ profiles' = SelectSeq(profiles, LAMBDA p : p.id # last'.id)
            /\ (active_profile # Some(last'.id) => active_profile' = active_profile)
            /\ (Len(profiles) = 1 => active_profile' = None)
      ]_vars

\* ---------------------------------------------------------------- C6
\* C6: a create whose slug is the id of an existing record fails with the
\* duplicate-profile error, and the registry in memory, its document and the
\* profile directories are as before the call.
DuplicateCreateFails ==
    [][ (Called("create") /\ HasId(profiles, last'.id)) =>
            /\ last'.result = "ValueError: already exists"
            /\ RegistryUntouched
      ]_vars

\* a create has been refused for an id that is in the registry
DuplicateCreateRefused ==
    /\ last.op = "create"
    /\ last.result = "ValueError: already exists"
    /\ HasId(profiles, last.id)

\* ---------------------------------------------------------------- C7
\* C7: create(name) for a slug not yet present, directly followed by
\* delete(slug), gives back the profile sequence from before the create, and
\* active_profile differs from its value before the create only if the
\* created profile had become the active one.
CreateThenDeleteRestores ==
    [][ (Called("delete") /\ last.op = "create" /\ last.result = "entry"
           /\ last'.id = last.id) =>
            /\ last'.result = "True"
            /\ profiles' = last.pre_profiles
            /\ (active_profile' # last.pre_active => active_profile = Some(last.id))
      ]_vars

\* a profile was created next to existing ones and deleted by the next call
CreatedThenDeleted ==
    /\ last.op = "delete" /\ last.result = "True"
    /\ last.after_create
    /\ profiles # <<>>

\* ---------------------------------------------------------------- C8
\* C8: delete and set_active with an id that is not in the registry change
\* neither the registry in memory, nor its document, nor the profile
\* directories; delete returns False and set_active raises not-found.
UnknownIdChangesNothing ==
    [][ ((Called("delete") \/ Called("set_active")) /\ ~HasId(profiles, last'.id)) =>
            /\ RegistryUntouched
            /\ (last'.op = "delete" => last'.result = "False")
            /\ (last'.op = "set_active" => last'.result = "ValueError: not found")
      ]_vars

\* set_active has been refused for an id that is in no record, on a registry
\* that has records
UnknownIdRefused ==
    /\ last.op = "set_active"
    /\ last.result = "ValueError: not found"
    /\ ~HasId(profiles, last.id)
    /\ profiles # <<>>

\* ---------------------------------------------------------------- C9
\* C9: a successful update assigns the supplied declared fields of the first
\* record with that id and nothing else: undeclared keys are not added, the
\* other fields of that record, every other record, the number and order of
\* the records, and active_profile are unchanged.
UpdateFrame ==
    [][ (Called("update") /\ last'.result = "None") =>
            /\ active_profile' = active_profile
            /\ Len(profiles') = Len(profiles)
            /\ \E i \in 1..Len(profiles) :
                  /\ profiles[i].id = last'.id
                  /\ \A j \in 1..Len(profiles) : j # i => profiles'[j] = profiles[j]
                  /\ DOMAIN profiles'[i] = DeclaredKeys
                  /\ \A k \in DeclaredKeys :
                        profiles'[i][k] =
                            IF last'.fields[k] = Absent THEN profiles[i][k]
                            ELSE last'.fields[k][1]
      ]_vars

\* an update was given a declared and an undeclared key, with other records
\* present
UpdatedWithUnknownKey ==
    /\ last.op = "update" /\ last.result = "None"
    /\ last.fields["bogus"] # Absent
    /\ last.fields["name"] # Absent
    /\ Len(profiles) >= 2

\* ---------------------------------------------------------------- C10
\* C10: the created_at of a record never changes while the record is in the
\* registry.  update_profile accepts "created_at" among its fields.
CreatedAtImmutable ==
    [][ (now' = now) =>
            IF last'.op = "delete"
            THEN \A j \in 1..Len(profiles') : \E i \in 1..Len(profiles) :
                    /\ profiles[i].id = profiles'[j].id
                    /\ profiles[i].created_at = profiles'[j].created_at
            ELSE \A i \in 1..Len(profiles) :
                    /\ i <= Len(profiles')
                    /\ profiles'[i].created_at = profiles[i].created_at
      ]_vars

\* ================================================================ status
\* ---------------------------------------------------------------- compute_status
AUTH_EXPIRY_DAYS == 7
AUTH_WARNING_DAYS == 5
SecondsPerDay == 86400

\* Python truth value of profile.get("authenticated_at"): None and 0 are false
Truthy(opt) == opt # None /\ opt[1] # 0

\* age_days > days, with age_days = age_seconds / 86400
AgeDaysOver(age_seconds, days) == age_seconds > days * SecondsPerDay

\* compute_status with the expiry test written >= instead of >
compute_status_ge(profile, t) ==
    IF ~Truthy(profile.authenticated_at) THEN "NOT_AUTHENTICATED"
    ELSE LET age_seconds == t - profile.authenticated_at[1] IN
         IF age_seconds >= AUTH_EXPIRY_DAYS * SecondsPerDay THEN "EXPIRED"
         ELSE IF AgeDaysOver(age_seconds, AUTH_WARNING_DAYS) THEN "EXPIRING_SOON"
         ELSE "VALID"

\* compute_status(profile) called when time.time() is t
compute_status(profile, t) ==
    IF ~Truthy(profile.authenticated_at) THEN "NOT_AUTHENTICATED"
    ELSE LET age_seconds == t - profile.authenticated_at[1] IN
         IF AgeDaysOver(age_seconds, AUTH_EXPIRY_DAYS) THEN "EXPIRED"
         ELSE IF AgeDaysOver(age_seconds, AUTH_WARNING_DAYS) THEN "EXPIRING_SOON"
         ELSE "VALID"

\* login times of the profile whose status is taken (epoch seconds, as
\* time.time() yields them: positive), and the ages at which it is taken:
\* both thresholds, one second and one day either side of them
LoginTimes == { 1, SecondsPerDay }
Ages ==
    { 0, 6 * SecondsPerDay, 8 * SecondsPerDay }
      \cup { d * SecondsPerDay + e : d \in {AUTH_WARNING_DAYS, AUTH_EXPIRY_DAYS}, e \in {-1, 0, 1} }
StatusClock == { a + g : a \in LoginTimes, g \in Ages }

\* a registry holding one profile, logged in at one of LoginTimes or never
StatusInit ==
    /\ NoProcess
    /\ \E a \in {None} \cup { Some(t) : t \in LoginTimes },
       v \in {None} \cup { Some(t) : t \in LoginTimes },
       t \in StatusClock :
        /\ now = t
        /\ n_updates = 0
        /\ profiles = << [ Entry(<<"a">>, <<"A">>, 1) EXCEPT
                             !.authenticated_at = a, !.last_validated = v ] >>
        /\ active_profile = Some(<<"a">>)
        /\ profiles_file = _save(active_profile, profiles)
        /\ fs_profiles = [d \in {<<"a">>} |-> {"browser_state"}]
        /\ last = [ op |-> "init", id |-> <<>>, result |-> "None", fields |-> NoKwargs,
                    pre_active |-> None, pre_profiles |-> <<>>, after_create |-> FALSE ]

\* a caller takes the status of the profile
Status ==
    /\ last' = Call("status", profiles[1].id, compute_status(profiles[1], now), NoKwargs)
    /\ UNCHANGED outside
    /\ UNCHANGED <<active_profile, profiles, profiles_file, fs_profiles, now, n_updates>>

\* time passes
StatusTick ==
    /\ \E t \in StatusClock : t > now /\ now' = t
    /\ UNCHANGED <<active_profile, profiles, profiles_file, fs_profiles, n_updates, last>>
    /\ UNCHANGED outside

StatusNext == Status \/ StatusTick

SpecStatus == StatusInit /\ [][StatusNext]_vars

PersistedEqualsMemory ==
    [][ (/\ now' = now
         /\ last'.op \in {"create", "delete", "set_active", "update"}
         /\ last'.result \in {"entry", "True", "None"}) =>
            /\ profiles_file'.exists
            /\ profiles_file'.active_profile = active_profile'
            /\ profiles_file'.profiles = profiles'
      ]_vars

\* set_active has moved the pointer between two profiles and the document
\* holds the new pointer
PointerMovePersisted ==
    /\ last.op = "set_active" /\ last.result = "None"
    /\ Len(profiles) >= 2
    /\ active_profile = Some(last.id)
    /\ profiles[1].id # last.id
    /\ profiles_file.exists
    /\ profiles_file.active_profile = active_profile

\* ================================================================ path resolution
\* get_profile_dir: the directory under data/profiles/ the paths are rooted at
get_profile_dir(profile_id) == profile_id

\* get_paths: every path is the profile directory joined with a fixed suffix
get_paths(profile_id) ==
    [ profile_dir |-> [base |-> get_profile_dir(profile_id), rel |-> ""],
      browser_state_dir |-> [base |-> get_profile_dir(profile_id), rel |-> "browser_state"],
      browser_profile_dir |->
          [base |-> get_profile_dir(profile_id), rel |-> "browser_state/browser_profile"],
      state_file |-> [base |-> get_profile_dir(profile_id), rel |-> "browser_state/state.json"],
      auth_info_file |-> [base |-> get_profile_dir(profile_id), rel |-> "auth_info.json"],
      library_file |-> [base |-> get_profile_dir(profile_id), rel |-> "library.json"] ]

\* Python truth value of an optional string: None and "" are false
TruthyStr(opt) == opt # None /\ opt[1] # <<>>

\* get_active_paths()
get_active_paths ==
    /\ last' = IF ~TruthyStr(active_profile)
               THEN Call("get_active_paths", <<>>, "RuntimeError: No active profile", NoKwargs)
               ELSE Call("get_active_paths", get_paths(active_profile[1]).profile_dir.base,
                         "paths", NoKwargs)
    /\ UNCHANGED outside
    /\ UNCHANGED <<active_profile, profiles, profiles_file, fs_profiles, now, n_updates>>

\* the names and ids of path resolution: those of the registry, and the empty
\* string
PathNames == Names \cup { <<>> }
PathIds == Ids \cup { <<>> }

PathsCreate == (\E name \in PathNames : create_profile(name)) /\ UNCHANGED outside
PathsDelete == (\E profile_id \in PathIds : delete_profile(profile_id)) /\ UNCHANGED outside
PathsSetActive == (\E profile_id \in PathIds : set_active(profile_id)) /\ UNCHANGED outside

PathsNext == PathsCreate \/ PathsDelete \/ PathsSetActive \/ get_active_paths

SpecPaths == Init /\ [][PathsNext]_vars

\* ---------------------------------------------------------------- C13
\* C13: get_active_paths fails with the no-active-profile error exactly when
\* active_profile is null, and otherwise returns the paths of the profile
\* active_profile names.  The code tests `not self.active_profile`, which is
\* also true of the empty id that create_profile("") makes active.
ActivePathsResolve ==
    [][ Called("get_active_paths") =>
            IF active_profile = None
            THEN last'.result = "RuntimeError: No active profile"
            ELSE last'.result = "paths" /\ last'.id = active_profile[1]
      ]_vars

\* ================================================================ startup, step by step
\* ProfileManager.__init__ as the sequence of its file-system steps, on a data
\* root that may hold legacy artifacts; the process can stop between any two
\* steps and a later process starts over.
\*
\* data_root.legacy        legacy artifacts at data/
\* data_root.info          what json.load finds in data/auth_info.json
\* data_root.profiles_dir  data/profiles/ exists
\* data_root.start_*       the data root as the running startup found it
\* data_root.triggered     a migration went past its two early returns, and
\*                         nothing was put at the data root since
\* auth_store.auth_info    data/profiles/default/auth_info.json

NoInfo == [ parses |-> FALSE, authenticated_at |-> None ]

\* a legacy login time
LegacyT == 5

\* contents of a legacy auth_info.json: not JSON, JSON without the key, JSON
\* with "authenticated_at": T
LegacyInfos ==
    { NoInfo, [ parses |-> TRUE, authenticated_at |-> None ],
      [ parses |-> TRUE, authenticated_at |-> Some(LegacyT) ] }

StartupInit ==
    /\ peer = None
    /\ exit_code = None
    /\ library = NoLibrary
    /\ \E legacy \in SUBSET LegacyArtifacts, info \in LegacyInfos :
          /\ "auth_info.json" \notin legacy => info = NoInfo
          /\ data_root = [ legacy |-> legacy, info |-> info, profiles_dir |-> FALSE,
                           start_legacy |-> {}, start_info |-> NoInfo,
                           start_profiles_dir |-> FALSE, triggered |-> FALSE ]
    /\ pc = "down"
    /\ auth_store = [ state_file |-> None, auth_info |-> None ]
    /\ browser = [ playwright |-> FALSE, context |-> FALSE ]
    /\ now = 1
    /\ n_updates = 0
    /\ profiles_file = [ exists |-> FALSE, active_profile |-> None, profiles |-> <<>> ]
    /\ fs_profiles = <<>>
    /\ active_profile = None
    /\ profiles = <<>>
    /\ last = [ op |-> "init", id |-> <<>>, result |-> "None", fields |-> NoKwargs,
                pre_active |-> None, pre_profiles |-> <<>>, after_create |-> FALSE ]

\* what no startup step touches
StartupFrame == UNCHANGED <<now, n_updates, last, browser, peer, exit_code, library>>

\* a process constructs a ProfileManager: DATA_DIR.mkdir, then the migration
Start ==
    /\ pc = "down"
    /\ pc' = "migrate"
    /\ data_root' = [data_root EXCEPT !.start_legacy = data_root.legacy,
                                      !.start_info = data_root.info,
                                      !.start_profiles_dir = data_root.profiles_dir]
    /\ UNCHANGED <<active_profile, profiles, profiles_file, fs_profiles, auth_store>>
    /\ StartupFrame

\* if PROFILES_DIR.exists(): return
AlreadyMigrated_never(root) == FALSE

AlreadyMigrated(root) == root.profiles_dir

\* the two early returns of _migrate_legacy_layout
MigrateCheck ==
    /\ pc = "migrate"
    /\ IF AlreadyMigrated(data_root) \/ data_root.legacy = {}
       THEN pc' = "mkdir_profiles" /\ UNCHANGED data_root
       ELSE pc' = "mkdir_default" /\ data_root' = [data_root EXCEPT !.triggered = TRUE]
    /\ UNCHANGED <<active_profile, profiles, profiles_file, fs_profiles, auth_store>>
    /\ StartupFrame

\* default_dir.mkdir(parents=True, exist_ok=True)
MkdirDefault ==
    /\ pc = "mkdir_default"
    /\ pc' = "move_browser_state"
    /\ data_root' = [data_root EXCEPT !.profiles_dir = TRUE]
    /\ fs_profiles' = [d \in DOMAIN fs_profiles \cup {DefaultId} |->
                          IF d \in DOMAIN fs_profiles THEN fs_profiles[d] ELSE {}]
    /\ UNCHANGED <<active_profile, profiles, profiles_file, auth_store>>
    /\ StartupFrame

\* if legacy_x.exists(): shutil.move(str(legacy_x), str(default_dir / x))
Move(artifact, at, next) ==
    /\ pc = at
    /\ pc' = next
    /\ IF artifact \in data_root.legacy
       THEN /\ data_root' = [data_root EXCEPT
                               !.legacy = @ \ {artifact},
                               !.info = IF artifact = "auth_info.json" THEN NoInfo ELSE @]
            /\ fs_profiles' = [fs_profiles EXCEPT ![DefaultId] = @ \cup {artifact}]
            /\ auth_store' = IF artifact = "auth_info.json"
                             THEN [auth_store EXCEPT !.auth_info = Some(data_root.info)]
                             ELSE auth_store
       ELSE UNCHANGED <<data_root, fs_profiles, auth_store>>
    /\ UNCHANGED <<active_profile, profiles, profiles_file>>
    /\ StartupFrame

MoveBrowserState == Move("browser_state", "move_browser_state", "move_auth_info")
MoveAuthInfo == Move("auth_info.json", "move_auth_info", "move_library")
MoveLibrary == Move("library.json", "move_library", "write_registry")

\* the migrated entry without the login time of auth_info.json
MigratedAuthenticatedAt_none(fs, store) == None

\* profile_entry["authenticated_at"]: info.get("authenticated_at") of the
\* migrated auth_info.json when it exists and loads, else None
MigratedAuthenticatedAt(fs, store) ==
    IF "auth_info.json" \in fs[DefaultId] /\ store.auth_info # None /\ store.auth_info[1].parses
    THEN store.auth_info[1].authenticated_at
    ELSE None

\* build profile_entry and write profiles.json
WriteRegistry ==
    /\ pc = "write_registry"
    /\ pc' = "mkdir_profiles"
    /\ profiles_file' =
          [ exists |-> TRUE, active_profile |-> Some(DefaultId),
            profiles |-> << [ Entry(DefaultId, DefaultName, now) EXCEPT
                                !.authenticated_at =
                                    MigratedAuthenticatedAt(fs_profiles, auth_store) ] >> ]
    /\ UNCHANGED <<active_profile, profiles, fs_profiles, auth_store, data_root>>
    /\ StartupFrame

\* PROFILES_DIR.mkdir(parents=True, exist_ok=True)
MkdirProfiles ==
    /\ pc = "mkdir_profiles"
    /\ pc' = "load"
    /\ data_root' = [data_root EXCEPT !.profiles_dir = TRUE]
    /\ UNCHANGED <<active_profile, profiles, profiles_file, fs_profiles, auth_store>>
    /\ StartupFrame

\* self._load()
Load ==
    /\ pc = "load"
    /\ pc' = "idle"
    /\ active_profile' = _load(profiles_file).active_profile
    /\ profiles' = _load(profiles_file).profiles
    /\ UNCHANGED <<profiles_file, fs_profiles, auth_store, data_root>>
    /\ StartupFrame

\* the process ends, after its startup or between two steps of it; its
\* in-memory registry is gone
Stop ==
    /\ pc # "down"
    /\ pc' = "down"
    /\ active_profile' = None
    /\ profiles' = <<>>
    /\ UNCHANGED <<profiles_file, fs_profiles, auth_store, data_root>>
    /\ StartupFrame

\* while no process runs, a legacy file is put (back) at the data root
Reintroduce ==
    /\ pc = "down"
    /\ \E artifact \in LegacyArtifacts \ data_root.legacy, info \in LegacyInfos :
          /\ artifact # "auth_info.json" => info = data_root.info
          /\ data_root' = [data_root EXCEPT !.legacy = @ \cup {artifact}, !.info = info,
                                            !.triggered = FALSE]
    /\ UNCHANGED <<pc, active_profile, profiles, profiles_file, fs_profiles, auth_store>>
    /\ StartupFrame

StartupNext ==
    \/ Start \/ MigrateCheck \/ MkdirDefault \/ MoveBrowserState \/ MoveAuthInfo
    \/ MoveLibrary \/ WriteRegistry \/ MkdirProfiles \/ Load \/ Stop \/ Reintroduce

SpecStartup == StartupInit /\ [][StartupNext]_vars

\* ---------------------------------------------------------------- C14
\* C14: a startup that finds no data/profiles/ and at least one legacy artifact
\* has migrated before it creates data/profiles/ itself and before it loads
\* the registry, and ends with exactly one profile "default", active, whose
\* authenticated_at is the value of the legacy auth_info.json (null when that
\* file is absent or does not parse), and with no legacy artifact at the root.
LegacyStartupMigrates ==
    [][ (~data_root.start_profiles_dir /\ data_root.start_legacy # {}) =>
          /\ (pc = "mkdir_profiles" /\ pc' = "load") =>
                /\ profiles_file.exists
                /\ data_root.legacy = {}
                /\ profiles = <<>> /\ active_profile = None
          /\ (pc = "load" /\ pc' = "idle") =>
                /\ Len(profiles') = 1
                /\ profiles'[1].id = <<"d", "e", "f", "a", "u", "l", "t">>
                /\ active_profile' = Some(<<"d", "e", "f", "a", "u", "l", "t">>)
                /\ profiles'[1].authenticated_at =
                      IF "auth_info.json" \in data_root.start_legacy
                         /\ data_root.start_info.parses
                      THEN data_root.start_info.authenticated_at
                      ELSE None
                /\ data_root'.legacy = {}
      ]_vars

\* a startup migrated a legacy root whose auth_info.json held a login time
LegacyLoginMigrated ==
    /\ pc = "idle"
    /\ ~data_root.start_profiles_dir
    /\ data_root.start_info.authenticated_at = Some(LegacyT)
    /\ Len(profiles) = 1
    /\ profiles[1].authenticated_at = Some(LegacyT)

\* ---------------------------------------------------------------- C15
\* C15: when data/profiles/ exists the migration returns at once and changes
\* nothing, whatever legacy files lie at the data root; a startup that finds
\* data/profiles/ leaves the registry document, the profile subtrees and the
\* legacy files as they are, so a second startup adds nothing to the first.
MigrationOneShot ==
    [][ /\ (pc = "migrate" /\ data_root.profiles_dir) =>
              /\ pc' \in {"mkdir_profiles", "down"}
              /\ UNCHANGED <<profiles_file, fs_profiles, auth_store, data_root>>
        /\ (pc # "down" /\ data_root.start_profiles_dir) =>
              /\ UNCHANGED <<profiles_file, fs_profiles, auth_store>>
              /\ data_root'.legacy = data_root.legacy
              /\ data_root'.info = data_root.info
              /\ data_root'.profiles_dir
      ]_vars

\* the migration has returned with a legacy file lying next to data/profiles/
ReintroducedLegacyLeft ==
    /\ pc = "mkdir_profiles"
    /\ data_root.start_profiles_dir
    /\ data_root.legacy # {}
    /\ profiles_file.exists

\* ---------------------------------------------------------------- C16
\* C16: once a migration has been triggered, every state shows either nothing
\* moved and no data/profiles/, or everything moved into the default subtree
\* and the registry document with the default profile written.  The code makes
\* the directory, moves the artifacts one by one and writes the document last.
MigrationAtomic ==
    data_root.triggered =>
        \/ /\ ~data_root.profiles_dir
           /\ data_root.legacy = data_root.start_legacy
        \/ /\ data_root.legacy = {}
           /\ DefaultId \in DOMAIN fs_profiles
           /\ data_root.start_legacy \subseteq fs_profiles[DefaultId]
           /\ profiles_file.exists
           /\ HasId(profiles_file.profiles, DefaultId)

\* ================================================================ authentication
\* One AuthManager (scripts/auth_manager.py) and its ProfileManager self.pm.
\* active_profile and profiles are self.pm's registry, profiles_file the
\* document it saves.  Every call into the automation layer is a step that
\* returns or raises.
\*
\* auth_store.profile_id   self.profile_id
\* auth_store.state_file   st_mtime of the profile's state.json, if it exists
\* auth_store.auth_info    content of the profile's auth_info.json, if it exists
\* browser                 the driver is started, the context is open, time
\*                         waited for the login so far, and whether the
\*                         Chrome profile browser_state/browser_profile/ exists
\* last                    the setup_auth or validate_auth call under way or
\*                         returned last, with the stored state it found

MaxAuthTime == 3           \* the clock of the authentication model stops here
InteractiveTimeout == 1    \* timeout_minutes, in clock ticks

\* the profile an AuthManager is constructed for
AuthId == <<"a">>

\* AuthManager.__init__: the explicit profile_id when it is given, else the
\* registry's active profile, else None
ResolveProfile(explicit, act) ==
    IF TruthyStr(explicit) THEN explicit
    ELSE IF TruthyStr(act) THEN act
    ELSE None

\* what _save_auth_info writes to auth_info.json
AuthInfo(t) == [ parses |-> TRUE, authenticated_at |-> Some(t) ]

NoCall ==
    [ op |-> "none", id |-> None, outcome |-> "none", url |-> "none", wait |-> "none", retval |-> "unset",
      returned |-> TRUE, t_call |-> 0, outer |-> "none", cleared |-> "none",
      pre_store |-> [ profile_id |-> None, state_file |-> None, auth_info |-> None ],
      outer_store |-> [ profile_id |-> None, state_file |-> None, auth_info |-> None ],
      pre_profiles |-> <<>>,
      pre_file |-> [ exists |-> FALSE, active_profile |-> None, profiles |-> <<>> ] ]

\* the AuthManager after construction: on an empty registry or on one that
\* holds AuthId, with or without an explicit profile id, before any login or
\* with the stored session of a login at time 1
AuthInit ==
    /\ \E registered \in BOOLEAN, explicit \in { None, Some(AuthId) }, session \in BOOLEAN :
          LET act == IF registered THEN Some(AuthId) ELSE None
              profile_id == ResolveProfile(explicit, act)
              had == session /\ profile_id # None
          IN /\ active_profile = act
             /\ profiles = IF registered
                           THEN << [ Entry(AuthId, <<"A">>, 1) EXCEPT
                                       !.authenticated_at = IF had THEN Some(1) ELSE None ] >>
                           ELSE <<>>
             /\ profiles_file = IF registered THEN _save(active_profile, profiles)
                                ELSE [ exists |-> FALSE, active_profile |-> None,
                                       profiles |-> <<>> ]
             /\ fs_profiles = IF profile_id = None
                              THEN (IF registered THEN MkdirBrowserState(<<>>, AuthId) ELSE <<>>)
                              ELSE MkdirBrowserState(<<>>, profile_id[1])
             /\ auth_store = [ profile_id |-> profile_id,
                               state_file |-> IF had THEN Some(1) ELSE None,
                               auth_info |-> IF had THEN Some(AuthInfo(1)) ELSE None ]
    /\ now = 1
    /\ peer = None
    /\ exit_code = None
    /\ library = NoLibrary
    /\ n_updates = 0
    /\ pc = "idle"
    /\ browser = [ playwright |-> FALSE, context |-> FALSE, waited |-> 0,
                   user_data |-> auth_store.state_file # None ]
    /\ last = NoCall
    /\ data_root = [ legacy |-> {}, info |-> NoInfo, profiles_dir |-> TRUE, start_legacy |-> {},
                     start_info |-> NoInfo, start_profiles_dir |-> TRUE, triggered |-> FALSE ]

\* what no step of the AuthManager touches
AuthFrame == UNCHANGED <<fs_profiles, n_updates, data_root, peer, exit_code, library>>

\* a call begins: what it finds stored
Begin(op) ==
    [ NoCall EXCEPT !.op = op, !.id = auth_store.profile_id, !.returned = FALSE,
                    !.t_call = now, !.pre_store = auth_store, !.pre_profiles = profiles,
                    !.pre_file = profiles_file ]

\* a return statement is reached: the handler it belongs to and its value;
\* the finally block runs next
Decide(outcome, retval, finally) ==
    /\ last' = [last EXCEPT !.outcome = outcome, !.retval = retval]
    /\ pc' = finally

\* self.pm.update_profile(self.profile_id, **fields) on self.pm's registry:
\* the registry after it, or "ValueError" when the id is not found
pm_update_profile(fields) ==
    LET i == _find(profiles, auth_store.profile_id[1]) IN
    IF i = 0 THEN [ raised |-> TRUE, profiles |-> profiles ]
    ELSE [ raised |-> FALSE, profiles |-> [profiles EXCEPT ![i] = ApplyFields(@, fields)] ]

\* the keyword arguments of _save_auth_info's update: authenticated_at=now
LoginFields(t) == [NoKwargs EXCEPT !["authenticated_at"] = Given(Some(t))]

\* validate_auth's update written with the key of the login time
ValidatedFields_login(t) == [NoKwargs EXCEPT !["authenticated_at"] = Given(Some(t))]

\* the keyword arguments of validate_auth's update: last_validated=time.time()
ValidatedFields(t) == [NoKwargs EXCEPT !["last_validated"] = Given(Some(t))]

\* context.storage_state(path=str(self.state_file))
storage_state(store, t) == [store EXCEPT !.state_file = Some(t)]

\* ---------------------------------------------------------------- setup_auth
\* setup_auth is entered at position at, by the caller (outer "none") or by
\* re_auth after its clear_auth returned cleared (outer_store is then what
\* re_auth found stored); without a profile it returns False at once
setup_auth(at, outer, cleared) ==
    /\ pc = at
    /\ LET found == IF outer = "re_auth" THEN last.pre_store ELSE NoCall.outer_store
       IN IF ~TruthyStr(auth_store.profile_id)
          THEN /\ last' = [Begin("setup") EXCEPT !.outcome = "NoProfile", !.retval = "False",
                                                 !.returned = TRUE, !.outer = outer,
                                                 !.cleared = cleared, !.outer_store = found]
               /\ pc' = "idle"
          ELSE /\ last' = [Begin("setup") EXCEPT !.outer = outer, !.cleared = cleared,
                                                 !.outer_store = found]
               /\ pc' = "s_start"
    /\ UNCHANGED <<active_profile, profiles, profiles_file, now, auth_store, browser>>
    /\ AuthFrame

\* a caller calls setup_auth
SetupCall ==
    /\ now + InteractiveTimeout <= MaxAuthTime
    /\ setup_auth("idle", "none", "none")

\* playwright = sync_playwright().start(); a raise goes to the outer handler
DriverStart(at, next, finally) ==
    /\ pc = at
    /\ \/ /\ browser' = [browser EXCEPT !.playwright = TRUE]
          /\ pc' = next
          /\ UNCHANGED last
       \/ /\ Decide("Failed", "False", finally)
          /\ UNCHANGED browser
    /\ UNCHANGED <<active_profile, profiles, profiles_file, now, auth_store>>
    /\ AuthFrame

\* context = BrowserFactory.launch_persistent_context(...)
ContextLaunch(at, next, finally) ==
    /\ pc = at
    /\ \/ /\ browser' = [browser EXCEPT !.context = TRUE, !.user_data = TRUE]
          /\ pc' = next
          /\ UNCHANGED last
       \/ /\ Decide("Failed", "False", finally)
          /\ UNCHANGED browser
    /\ UNCHANGED <<active_profile, profiles, profiles_file, now, auth_store>>
    /\ AuthFrame

SetupStart == DriverStart("s_start", "s_launch", "s_finally")
SetupLaunch == ContextLaunch("s_launch", "s_goto", "s_finally")

\* page.goto(...), then the test of page.url: on the origin already, or sent
\* to the login page
SetupGoto ==
    /\ pc = "s_goto"
    /\ \/ pc' = "s_already" /\ last' = [last EXCEPT !.url = "origin"]
       \/ pc' = "s_wait" /\ last' = [last EXCEPT !.url = "login"]
       \/ Decide("Failed", "False", "s_finally")
    /\ UNCHANGED <<active_profile, profiles, profiles_file, now, auth_store, browser>>
    /\ AuthFrame

\* "Already authenticated!": self._save_browser_state(context); return True.
\* _save_browser_state re-raises, to the outer handler
SetupAlready ==
    /\ pc = "s_already"
    /\ \/ /\ auth_store' = storage_state(auth_store, now)
          /\ Decide("Authenticated", "True", "s_finally")
       \/ /\ Decide("Failed", "False", "s_finally")
          /\ UNCHANGED auth_store
    /\ UNCHANGED <<active_profile, profiles, profiles_file, now, browser>>
    /\ AuthFrame

\* time passes while page.wait_for_url waits
WaitTick ==
    /\ pc = "s_wait"
    /\ browser.waited < InteractiveTimeout
    /\ now < MaxAuthTime
    /\ now' = now + 1
    /\ browser' = [browser EXCEPT !.waited = @ + 1]
    /\ UNCHANGED <<active_profile, profiles, profiles_file, auth_store, last, pc>>
    /\ AuthFrame

\* wait_for_url returns normally only when the url was reached
WaitSucceeded_always(result) == TRUE

WaitSucceeded(result) == result = "reached"

\* wait_for_url raises its timeout when timeout_ms have passed
TimedOut_never(waited) == FALSE

TimedOut(waited) == waited >= InteractiveTimeout

\* wait_for_url ends; anything it raises goes to the inner handler, which
\* prints "Authentication timeout" and returns False
WaitEnds(result) ==
    /\ pc = "s_wait"
    /\ IF WaitSucceeded(result)
       THEN pc' = "s_save" /\ last' = [last EXCEPT !.wait = result]
       ELSE /\ pc' = "s_finally"
            /\ last' = [last EXCEPT !.wait = result, !.outcome = "TimedOut", !.retval = "False"]
    /\ browser' = [browser EXCEPT !.waited = 0]
    /\ UNCHANGED <<active_profile, profiles, profiles_file, now, auth_store>>
    /\ AuthFrame

\* the user completes the login before the timeout
LoginArrives == ~TimedOut(browser.waited) /\ WaitEnds("reached")
\* the timeout passes
WaitTimeout == TimedOut(browser.waited) /\ WaitEnds("timeout")
\* the page or the browser goes away while waiting
WaitError == ~TimedOut(browser.waited) /\ WaitEnds("error")

\* self._save_browser_state(context) after the login; its raise is caught by
\* the inner handler
SetupSave ==
    /\ pc = "s_save"
    /\ \/ /\ auth_store' = storage_state(auth_store, now)
          /\ pc' = "s_info"
          /\ UNCHANGED last
       \/ /\ Decide("TimedOut", "False", "s_finally")
          /\ UNCHANGED auth_store
    /\ UNCHANGED <<active_profile, profiles, profiles_file, now, browser>>
    /\ AuthFrame

\* self._save_auth_info(); return True.  _save_auth_info writes
\* auth_info.json, then updates the registry; whatever is raised (by the
\* write, or by update_profile for an id the registry does not hold) is
\* swallowed
SetupInfo ==
    /\ pc = "s_info"
    /\ \/ LET u == pm_update_profile(LoginFields(now))
          IN /\ auth_store' = [auth_store EXCEPT !.auth_info = Some(AuthInfo(now))]
             /\ IF u.raised
                THEN UNCHANGED <<profiles, profiles_file>>
                ELSE /\ profiles' = u.profiles
                     /\ profiles_file' = _save(active_profile, profiles')
       \/ UNCHANGED <<auth_store, profiles, profiles_file>>
    /\ Decide("Authenticated", "True", "s_finally")
    /\ UNCHANGED <<active_profile, now, browser>>
    /\ AuthFrame

\* a finally block that closes nothing
Released_none(b) == b

\* if context: context.close(); if playwright: playwright.stop()
Released(b) == [b EXCEPT !.playwright = FALSE, !.context = FALSE]

\* finally: context.close() and playwright.stop(), then the value is returned
Finally(at) ==
    /\ pc = at
    /\ pc' = "idle"
    /\ browser' = Released(browser)
    /\ last' = [last EXCEPT !.returned = TRUE]
    /\ UNCHANGED <<active_profile, profiles, profiles_file, now, auth_store>>
    /\ AuthFrame

SetupFinally == Finally("s_finally")

\* ---------------------------------------------------------------- validate_auth
\* is_authenticated returning False for a state file of more than seven days
is_authenticated_fresh(store) ==
    /\ store.profile_id # None /\ store.state_file # None
    /\ now - store.state_file[1] <= 7 * SecondsPerDay

\* is_authenticated(): the state file is set and exists (its age only prints
\* a warning)
is_authenticated(store) == store.profile_id # None /\ store.state_file # None

\* validate_auth is called; if not self.is_authenticated(): return False
ValidateCall ==
    /\ pc = "idle"
    /\ IF ~is_authenticated(auth_store)
       THEN /\ last' = [Begin("validate") EXCEPT !.outcome = "NotAuthenticated",
                                                 !.retval = "False", !.returned = TRUE]
            /\ UNCHANGED pc
       ELSE /\ last' = Begin("validate")
            /\ pc' = "v_start"
    /\ UNCHANGED <<active_profile, profiles, profiles_file, now, auth_store, browser>>
    /\ AuthFrame

ValidateStart == DriverStart("v_start", "v_launch", "v_finally")
ValidateLaunch == ContextLaunch("v_launch", "v_goto", "v_finally")

\* page.goto(..., timeout=30000), then the test of page.url
ValidateGoto ==
    /\ pc = "v_goto"
    /\ \/ pc' = "v_record" /\ last' = [last EXCEPT !.url = "origin"]
       \/ /\ pc' = "v_finally"
          /\ last' = [last EXCEPT !.url = "login", !.outcome = "Invalid", !.retval = "False"]
       \/ Decide("Failed", "False", "v_finally")
    /\ UNCHANGED <<active_profile, profiles, profiles_file, now, auth_store, browser>>
    /\ AuthFrame

\* self.pm.update_profile(self.profile_id, last_validated=time.time());
\* return True.  The ValueError for an id the registry does not hold is caught
\* by the handler, which returns False
ValidateRecord ==
    /\ pc = "v_record"
    /\ LET u == pm_update_profile(ValidatedFields(now))
       IN IF u.raised
          THEN /\ Decide("Failed", "False", "v_finally")
               /\ UNCHANGED <<profiles, profiles_file>>
          ELSE /\ profiles' = u.profiles
               /\ profiles_file' = _save(active_profile, profiles')
               /\ Decide("Valid", "True", "v_finally")
    /\ UNCHANGED <<active_profile, now, auth_store, browser>>
    /\ AuthFrame

ValidateFinally == Finally("v_finally")

\* time passes between two calls
AuthTick ==
    /\ pc = "idle"
    /\ now < MaxAuthTime
    /\ now' = now + 1
    /\ UNCHANGED <<active_profile, profiles, profiles_file, auth_store, browser, last, pc>>
    /\ AuthFrame

\* ---------------------------------------------------------------- clear_auth, re_auth
\* clear_auth without its rmtree of browser_state/
RmtreeBrowserState_skip(b) == b

\* shutil.rmtree(self.browser_state_dir); self.browser_state_dir.mkdir(...)
RmtreeBrowserState(b) == [b EXCEPT !.user_data = FALSE]

\* where clear_auth can raise: at the unlink of an existing state.json, at
\* the unlink of an existing auth_info.json, at the rmtree of a browser_state/
\* that holds a Chrome profile; "none" when nothing raises
ClearFailures(store, b) ==
    {"none"} \cup (IF store.state_file # None THEN {"state"} ELSE {})
             \cup (IF store.auth_info # None THEN {"info"} ELSE {})
             \cup (IF b.user_data THEN {"rmtree"} ELSE {})

\* a clear_auth that unlinks state.json and leaves auth_info.json
clear_auth_state_only(store, b, fail) ==
    IF ~TruthyStr(store.profile_id)
    THEN [ store |-> store, browser |-> b, retval |-> "False" ]
    ELSE [ store |-> [store EXCEPT !.state_file = IF fail = "state" THEN @ ELSE None],
           browser |-> IF fail = "none" THEN RmtreeBrowserState(b) ELSE b,
           retval |-> IF fail = "none" THEN "True" ELSE "False" ]

\* clear_auth(): the stored session after it and the value it returns
clear_auth(store, b, fail) ==
    IF ~TruthyStr(store.profile_id)
    THEN [ store |-> store, browser |-> b, retval |-> "False" ]
    ELSE [ store |-> [store EXCEPT
                        !.state_file = IF fail = "state" THEN @ ELSE None,
                        !.auth_info = IF fail \in {"state", "info"} THEN @ ELSE None],
           browser |-> IF fail = "none" THEN RmtreeBrowserState(b) ELSE b,
           retval |-> IF fail = "none" THEN "True" ELSE "False" ]

\* a caller calls clear_auth
ClearCall ==
    /\ pc = "idle"
    /\ \E fail \in ClearFailures(auth_store, browser) :
          LET c == clear_auth(auth_store, browser, fail)
          IN /\ auth_store' = c.store
             /\ browser' = c.browser
             /\ last' = [Begin("clear") EXCEPT !.retval = c.retval, !.returned = TRUE]
    /\ UNCHANGED <<active_profile, profiles, profiles_file, now, pc>>
    /\ AuthFrame

\* re_auth going on to setup_auth only after a successful clear_auth
AfterClear_stop(cleared) == IF cleared = "True" THEN "r_setup" ELSE "idle"

\* self.clear_auth() is a statement of its own: its value is dropped and
\* re_auth goes on to setup_auth
AfterClear(cleared) == "r_setup"

\* a caller calls re_auth: first self.clear_auth()
ReauthCall ==
    /\ pc = "idle"
    /\ now + InteractiveTimeout <= MaxAuthTime
    /\ \E fail \in ClearFailures(auth_store, browser) :
          LET c == clear_auth(auth_store, browser, fail)
          IN /\ auth_store' = c.store
             /\ browser' = c.browser
             /\ last' = [Begin("re_auth") EXCEPT !.cleared = c.retval]
             /\ pc' = AfterClear(c.retval)
    /\ UNCHANGED <<active_profile, profiles, profiles_file, now>>
    /\ AuthFrame

\* return self.setup_auth(headless, timeout_minutes)
ReauthSetup == setup_auth("r_setup", "re_auth", last.cleared)

SetupStep ==
    \/ SetupStart \/ SetupLaunch \/ SetupGoto \/ SetupAlready \/ WaitTick \/ WaitTimeout
    \/ SetupSave \/ SetupInfo \/ SetupFinally

AuthNext ==
    \/ SetupCall \/ SetupStep \/ LoginArrives \/ WaitError
    \/ ClearCall \/ ReauthCall \/ ReauthSetup
    \/ ValidateCall \/ ValidateStart \/ ValidateLaunch \/ ValidateGoto \/ ValidateRecord
    \/ ValidateFinally \/ AuthTick

SpecAuth == AuthInit /\ [][AuthNext]_vars

\* every call into the automation layer returns or raises, the clock runs
\* while wait_for_url waits, and wait_for_url raises when its timeout has
\* passed; nothing makes the user log in
SpecAuthLive == SpecAuth /\ WF_vars(SetupStep)

\* ---------------------------------------------------------------- vocabulary
\* the step on which the call under way returns
Returns(op) == last.op = op /\ ~last.returned /\ last'.returned

\* the call was made for a profile of the registry
ForRegistered == last.id # None /\ HasId(last.pre_profiles, last.id[1])

\* some time T of the call is the value of field key of the profile in ps
StampedDuringCall(ps, key) ==
    \E i \in 1..Len(ps), T \in last.t_call..now :
        ps[i].id = last.id[1] /\ ps[i][key] = Some(T)

\* ---------------------------------------------------------------- C17
\* C17: when setup_auth returns True for a profile, its state.json exists, its
\* auth_info.json holds the time of this login, and the registry's
\* authenticated_at of the profile is that same time, on every path that
\* returns True.  The "Already authenticated" path saves the browser state
\* only.
SetupSuccessStored ==
    [][ (Returns("setup") /\ ForRegistered /\ last.retval = "True") =>
          /\ auth_store'.state_file # None
          /\ auth_store'.auth_info # None
          /\ \E T \in last.t_call..now :
                /\ auth_store'.auth_info[1].authenticated_at = Some(T)
                /\ \E i \in 1..Len(profiles') :
                      /\ profiles'[i].id = last.id[1]
                      /\ profiles'[i].authenticated_at = Some(T)
      ]_vars

\* ---------------------------------------------------------------- C18
\* C18: when the wait for the login times out, setup_auth returns False and
\* state.json, auth_info.json and the registry (in memory and on disk) are as
\* they were when setup_auth was called.
TimeoutLeavesStored ==
    [][ (Returns("setup") /\ last.wait = "timeout") =>
          /\ last'.retval = "False"
          /\ auth_store' = last.pre_store
          /\ profiles' = last.pre_profiles
          /\ profiles_file' = last.pre_file
      ]_vars

\* setup_auth timed out on a profile that had a stored session
TimedOutWithSession ==
    /\ pc = "idle"
    /\ last.op = "setup" /\ last.returned
    /\ last.wait = "timeout"
    /\ now > last.t_call
    /\ last.pre_store.state_file # None
    /\ ForRegistered

\* ---------------------------------------------------------------- C19
\* C19: a setup_auth call on a resolved profile returns, the wait for the
\* login ending at the timeout at the latest; it returns in one of the
\* outcomes Authenticated, TimedOut and Failed, which does not change once
\* reached; it returns True exactly in Authenticated; in TimedOut and Failed
\* state.json is as it was.
SetupOutcomes ==
    /\ [][ /\ (last.op = "setup" /\ ~last.returned /\ last.outcome # "none") =>
                 last'.outcome = last.outcome
           /\ Returns("setup") =>
                 /\ last'.outcome \in {"Authenticated", "TimedOut", "Failed"}
                 /\ last'.retval = "True" <=> last'.outcome = "Authenticated"
                 /\ last'.outcome \in {"TimedOut", "Failed"} =>
                       auth_store'.state_file = last.pre_store.state_file
         ]_vars
    /\ (last.op = "setup" /\ ~last.returned) ~> last.returned

\* setup_auth returned True after the user logged in during the wait
SetupAuthenticated ==
    /\ pc = "idle"
    /\ last.op = "setup" /\ last.returned
    /\ last.outcome = "Authenticated"
    /\ last.wait = "reached"
    /\ now > last.t_call

\* ---------------------------------------------------------------- C20
\* C20: no step of validate_auth changes the authenticated_at of a profile;
\* for a profile of the registry, validate_auth returns True with
\* last_validated set to the time of the call when the origin was reached, and
\* returns False with the registry as it was on a redirect to the login page
\* or an error.
ValidateKeepsLogin ==
    [][ last'.op = "validate" =>
          /\ Len(profiles') = Len(profiles)
          /\ \A i \in 1..Len(profiles) :
                profiles'[i].authenticated_at = profiles[i].authenticated_at
          /\ Len(profiles_file'.profiles) = Len(profiles_file.profiles)
          /\ \A i \in 1..Len(profiles_file.profiles) :
                profiles_file'.profiles[i].authenticated_at
                    = profiles_file.profiles[i].authenticated_at
          /\ (Returns("validate") /\ ForRegistered) =>
                IF last.url = "origin"
                THEN /\ last'.retval = "True"
                     /\ StampedDuringCall(profiles', "last_validated")
                     /\ StampedDuringCall(profiles_file'.profiles, "last_validated")
                ELSE /\ last'.retval = "False"
                     /\ profiles' = last.pre_profiles
                     /\ profiles_file' = last.pre_file
      ]_vars

\* validate_auth confirmed, at a later time, the session of a login
ValidatedAfterLogin ==
    /\ pc = "idle"
    /\ last.op = "validate" /\ last.returned
    /\ last.retval = "True"
    /\ Len(profiles) = 1
    /\ profiles[1].authenticated_at # None
    /\ profiles[1].last_validated # None
    /\ profiles[1].last_validated[1] > profiles[1].authenticated_at[1]

\* ================================================================ age of the stored session
\* is_authenticated and validate_auth on state files of every age around the
\* seven days of the warning.

\* if age_days > 7: print("Warning: Browser state is ... days old")
StateWarningDays == 7

\* the warning printed at seven days already
StateTooOld_ge(store, t) ==
    store.state_file # None /\ t - store.state_file[1] >= StateWarningDays * SecondsPerDay

\* age_days = (time.time() - st_mtime) / 86400; age_days > 7
StateTooOld(store, t) ==
    store.state_file # None /\ AgeDaysOver(t - store.state_file[1], StateWarningDays)

\* an AuthManager for the registered profile AuthId, whose state.json is
\* absent or was written at one of LoginTimes
FreshInit ==
    /\ \E m \in {None} \cup { Some(t) : t \in LoginTimes }, t \in StatusClock :
          /\ m # None => t >= m[1]
          /\ now = t
          /\ auth_store = [ profile_id |-> Some(AuthId), state_file |-> m,
                            auth_info |-> IF m = None THEN None ELSE Some(AuthInfo(m[1])) ]
          /\ profiles = << [ Entry(AuthId, <<"A">>, 1) EXCEPT !.authenticated_at = m ] >>
    /\ active_profile = Some(AuthId)
    /\ profiles_file = _save(active_profile, profiles)
    /\ fs_profiles = MkdirBrowserState(<<>>, AuthId)
    /\ peer = None
    /\ exit_code = None
    /\ library = NoLibrary
    /\ n_updates = 0
    /\ pc = "idle"
    /\ browser = [ playwright |-> FALSE, context |-> FALSE, waited |-> 0,
                   user_data |-> auth_store.state_file # None ]
    /\ last = NoCall
    /\ data_root = [ legacy |-> {}, info |-> NoInfo, profiles_dir |-> TRUE, start_legacy |-> {},
                     start_info |-> NoInfo, start_profiles_dir |-> TRUE, triggered |-> FALSE ]

\* a caller asks is_authenticated(); the warning is what it prints
FreshCheck ==
    /\ pc = "idle"
    /\ last' = [Begin("is_authenticated") EXCEPT
                  !.retval = IF is_authenticated(auth_store) THEN "True" ELSE "False",
                  !.outcome = IF is_authenticated(auth_store) /\ StateTooOld(auth_store, now)
                              THEN "Warning" ELSE "none",
                  !.returned = TRUE]
    /\ UNCHANGED <<active_profile, profiles, profiles_file, now, auth_store, browser, pc>>
    /\ AuthFrame

\* time passes between two calls
FreshTick ==
    /\ pc = "idle"
    /\ \E t \in StatusClock : t > now /\ now' = t
    /\ UNCHANGED <<active_profile, profiles, profiles_file, auth_store, browser, last, pc>>
    /\ AuthFrame

FreshNext ==
    \/ FreshCheck \/ FreshTick
    \/ ValidateCall \/ ValidateStart \/ ValidateLaunch \/ ValidateGoto \/ ValidateRecord
    \/ ValidateFinally

SpecFresh == FreshInit /\ [][FreshNext]_vars

\* ---------------------------------------------------------------- C21
\* C21: validate_auth goes on to the automation check whenever state.json
\* exists, whatever its age, and returns False without starting the driver
\* exactly when state.json is absent.
ValidateAttemptsStale ==
    [][ (pc = "idle" /\ last'.op = "validate" /\ last' # last) =>
          /\ auth_store.state_file # None =>
                pc' = "v_start" /\ ~last'.returned
          /\ auth_store.state_file = None <=>
                /\ last'.returned /\ last'.retval = "False"
                /\ pc' = "idle" /\ ~browser'.playwright /\ ~browser'.context
      ]_vars

\* the driver is about to start for a session of more than seven days
StaleSessionAttempted ==
    /\ pc = "v_start"
    /\ last.op = "validate"
    /\ auth_store.state_file # None
    /\ now - auth_store.state_file[1] > 7 * 86400

\* ---------------------------------------------------------------- C22
\* C22 as stated: is_authenticated returns True if and only if state.json
\* exists and is at most seven days old.
FreshWithinSevenDays ==
    [][ (last'.op = "is_authenticated" /\ last' # last) =>
          (last'.retval = "True" <=>
              /\ auth_store.state_file # None
              /\ now - auth_store.state_file[1] <= 7 * 86400)
      ]_vars

\* C22 amended: is_authenticated returns True if and only if state.json
\* exists; an age of more than seven days only makes it print a warning.
FreshIsExistence ==
    [][ (last'.op = "is_authenticated" /\ last' # last) =>
          /\ last'.retval = "True" <=> auth_store.state_file # None
          /\ last'.outcome = "Warning" <=>
                /\ auth_store.state_file # None
                /\ now - auth_store.state_file[1] > 7 * 86400
      ]_vars

\* is_authenticated returned True, with the warning, for a session of more
\* than seven days
StaleSessionAccepted ==
    /\ last.op = "is_authenticated"
    /\ last.retval = "True" /\ last.outcome = "Warning"
    /\ now = last.t_call
    /\ now - auth_store.state_file[1] > 7 * 86400

\* ---------------------------------------------------------------- vocabulary
\* the step is a clear_auth call by a caller (not the one inside re_auth)
Cleared == pc = "idle" /\ last'.op = "clear" /\ last' # last

\* nothing of the session is stored: no state.json, no auth_info.json,
\* browser_state/ present and empty
NothingStored(store, b, fs) ==
    /\ store.state_file = None
    /\ store.auth_info = None
    /\ store.profile_id[1] \in DOMAIN fs
    /\ "browser_state" \in fs[store.profile_id[1]]
    /\ ~b.user_data

\* ---------------------------------------------------------------- C23
\* C23: after clear_auth returns True, state.json and auth_info.json do not
\* exist and browser_state/ exists and is empty; clear_auth on a profile that
\* is cleared returns True and leaves the disk as it is.
ClearEmptiesSession ==
    [][ Cleared =>
          /\ last'.retval = "True" => NothingStored(auth_store', browser', fs_profiles')
          /\ (last.id # None /\ last'.id # None /\ NothingStored(auth_store, browser, fs_profiles)) =>
                /\ last'.retval = "True"
                /\ UNCHANGED <<auth_store, browser, fs_profiles, profiles_file>>
      ]_vars

\* clear_auth removed a stored session with its Chrome profile
SessionCleared ==
    /\ last.op = "clear" /\ last.retval = "True"
    /\ last.pre_store.state_file # None
    /\ last.pre_store.auth_info # None
    /\ NothingStored(auth_store, browser, fs_profiles)
    /\ now = last.t_call /\ pc = "idle"

\* ---------------------------------------------------------------- C24
\* C24: after clear_auth on a profile of the registry, the registry's
\* authenticated_at of the profile is null and its status is
\* NOT_AUTHENTICATED.  clear_auth removes files only; it never calls
\* update_profile.
ClearResetsLogin ==
    [][ (Cleared /\ last'.retval = "True" /\ last'.id # None
           /\ HasId(profiles, last'.id[1])) =>
          \A i \in 1..Len(profiles') :
              profiles'[i].id = last'.id[1] =>
                  /\ profiles'[i].authenticated_at = None
                  /\ compute_status(profiles'[i], now') = "NOT_AUTHENTICATED"
      ]_vars

\* ---------------------------------------------------------------- C25
\* C25: re_auth runs clear_auth first and then, whatever clear_auth returned,
\* setup_auth, with nothing in between; what setup_auth returns is what
\* re_auth returns.
ReauthClearsThenSetsUp ==
    [][ /\ (pc = "idle" /\ last'.op = "re_auth" /\ last' # last) =>
              /\ pc' = "r_setup"
              /\ last'.cleared \in {"True", "False"}
              /\ ~last'.returned
              /\ last'.cleared = "True" =>
                    auth_store'.state_file = None /\ auth_store'.auth_info = None
        /\ pc = "r_setup" =>
              /\ last.op = "re_auth"
              /\ last'.op = "setup" /\ last'.outer = "re_auth"
              /\ last'.cleared = last.cleared
              /\ UNCHANGED <<auth_store, profiles, profiles_file>>
        /\ (last.outer = "re_auth" /\ Returns("setup")) =>
              /\ last'.retval = last.retval
              /\ last'.retval = "True" <=> last'.outcome = "Authenticated"
      ]_vars

\* re_auth returned True although its clear_auth had failed
ReauthAfterFailedClear ==
    /\ pc = "idle"
    /\ last.op = "setup" /\ last.outer = "re_auth" /\ last.returned
    /\ last.cleared = "False"
    /\ last.retval = "True"

\* ---------------------------------------------------------------- C26
\* C26: when setup_auth, validate_auth or re_auth returns, on whichever path,
\* the driver is stopped and the context is closed; no call is idle with a
\* context open.
ReleasedOnReturn ==
    [][ /\ (~last.returned /\ last'.returned) =>
              ~browser'.playwright /\ ~browser'.context
        /\ pc' = "idle" => ~browser'.playwright /\ ~browser'.context
      ]_vars

\* setup_auth returned from its timeout handler, with nothing left open
TimedOutAndReleased ==
    /\ pc = "idle"
    /\ last.op = "setup" /\ last.returned /\ last.outcome = "TimedOut"
    /\ last.wait = "error"
    /\ ~browser.playwright /\ ~browser.context /\ browser.user_data

\* ---------------------------------------------------------------- C30
\* C30: setup_auth, validate_auth and clear_auth for an explicit profile id
\* that the registry does not hold do not return True and leave no state.json,
\* auth_info.json or profile directory for that id.  AuthManager.__init__
\* takes any id and makes its browser_state/ directory; only update_profile
\* looks the id up, and its ValueError is swallowed or caught.
UnknownProfileRefused ==
    [][ (last'.id # None /\ ~HasId(profiles', last'.id[1])) =>
          /\ last'.returned => last'.retval # "True"
          /\ auth_store'.state_file = None /\ auth_store'.auth_info = None
          /\ last'.id[1] \notin DOMAIN fs_profiles'
      ]_vars

\* ---------------------------------------------------------------- C27
\* C27: after delete_profile(id) returns True no record with that id is in the
\* registry or in the registry document, and the profile directory of the id,
\* with everything in it, does not exist.
DeleteRemovesAll ==
    [][ (Called("delete") /\ last'.result = "True") =>
          /\ ~HasId(profiles', last'.id)
          /\ ~HasId(profiles_file'.profiles, last'.id)
          /\ IF last'.id = <<>> THEN fs_profiles' = <<>>
             ELSE last'.id \notin DOMAIN fs_profiles'
      ]_vars

\* the migrated default profile, with its session, auth-info and library
\* files, was deleted
DefaultProfileDeleted ==
    /\ last.op = "delete" /\ last.result = "True"
    /\ last.id = DefaultId
    /\ DefaultId \notin DOMAIN fs_profiles
    /\ ~HasId(profiles, DefaultId)
    /\ Len(profiles) > 0

\* ================================================================ a save that fails
\* The AuthManager with a registry document that cannot be written: open() in
\* _save raises OSError and leaves profiles.json as it is.  update_profile
\* has changed the entry in memory before it calls _save.

\* _save_auth_info when _save raises in update_profile: auth_info.json is
\* written, the entry is changed in memory, the OSError is swallowed, and
\* setup_auth returns True
SetupInfoUnsaved ==
    /\ pc = "s_info"
    /\ LET u == pm_update_profile(LoginFields(now))
       IN /\ ~u.raised
          /\ profiles' = u.profiles
    /\ auth_store' = [auth_store EXCEPT !.auth_info = Some(AuthInfo(now))]
    /\ Decide("Authenticated", "True", "s_finally")
    /\ UNCHANGED <<active_profile, profiles_file, now, browser>>
    /\ AuthFrame

\* validate_auth when _save raises in update_profile: the OSError is caught
\* by the handler, which returns False
ValidateRecordUnsaved ==
    /\ pc = "v_record"
    /\ LET u == pm_update_profile(ValidatedFields(now))
       IN /\ ~u.raised
          /\ profiles' = u.profiles
    /\ Decide("Failed", "False", "v_finally")
    /\ UNCHANGED <<active_profile, profiles_file, now, auth_store, browser>>
    /\ AuthFrame

PersistNext == AuthNext \/ SetupInfoUnsaved \/ ValidateRecordUnsaved

SpecPersist == AuthInit /\ [][PersistNext]_vars

\* ---------------------------------------------------------------- C29
\* C29: when the registry in memory and the registry document differ because a
\* save failed, the caller has been told: no call returns True while a reload
\* of the document would give another registry than the one in memory.
\* _save_auth_info swallows the error of the update it issues.
SaveFailureSurfaced ==
    [][ (~last.returned /\ last'.returned /\ last'.retval = "True") =>
          _load(profiles_file') = [ active_profile |-> active_profile', profiles |-> profiles' ]
      ]_vars

\* ================================================================ two processes
\* Two processes, each with an AuthManager for the registered profile AuthId
\* constructed before either of them wrote: each has its own registry in
\* memory, its own call under way and its own browser; profiles.json,
\* state.json, auth_info.json and the profile directories are shared.  The
\* per-process variables are those of the process taking the step; peer holds
\* the other process, and Swap hands the processor over between any two
\* steps.  Neither process reads profiles.json again (_load runs in
\* ProfileManager.__init__ only).

TwoInit ==
    /\ active_profile = Some(AuthId)
    /\ profiles = << Entry(AuthId, <<"A">>, 1) >>
    /\ profiles_file = _save(active_profile, profiles)
    /\ fs_profiles = MkdirBrowserState(<<>>, AuthId)
    /\ auth_store = [ profile_id |-> Some(AuthId), state_file |-> None, auth_info |-> None ]
    /\ now = 1
    /\ n_updates = 0
    /\ pc = "idle"
    /\ browser = [ playwright |-> FALSE, context |-> FALSE, waited |-> 0, user_data |-> FALSE ]
    /\ last = NoCall
    /\ data_root = [ legacy |-> {}, info |-> NoInfo, profiles_dir |-> TRUE, start_legacy |-> {},
                     start_info |-> NoInfo, start_profiles_dir |-> TRUE, triggered |-> FALSE ]
    /\ exit_code = None
    /\ library = NoLibrary
    /\ peer = [ running |-> 1, active_profile |-> active_profile, profiles |-> profiles,
                pc |-> pc, last |-> last, browser |-> browser ]

\* the other process takes the next steps; browser_state/browser_profile/ is
\* on disk and stays with the disk
Swap ==
    /\ active_profile' = peer.active_profile
    /\ profiles' = peer.profiles
    /\ pc' = peer.pc
    /\ last' = peer.last
    /\ browser' = [peer.browser EXCEPT !.user_data = browser.user_data]
    /\ peer' = [ running |-> 3 - peer.running, active_profile |-> active_profile,
                 profiles |-> profiles, pc |-> pc, last |-> last,
                 browser |-> [browser EXCEPT !.user_data = FALSE] ]
    /\ UNCHANGED <<profiles_file, fs_profiles, auth_store, now, n_updates, data_root, exit_code,
                   library>>

\* process 1 is a setup command, process 2 a validate or clear command
TwoNext ==
    \/ peer.running = 1 /\ (SetupCall \/ SetupStep \/ LoginArrives \/ WaitError)
    \/ peer.running = 2 /\ ( \/ ValidateCall \/ ValidateStart \/ ValidateLaunch \/ ValidateGoto
                              \/ ValidateRecord \/ ValidateFinally \/ ClearCall )
    \/ Swap

SpecTwo == TwoInit /\ [][TwoNext]_vars

\* C28: with two processes that each loaded the registry before the other
\* wrote, every write of profiles.json replaces the whole document by the
\* writing process's own memory (active profile and all entries), so that
\* what the other process wrote before, and the writer never read, is gone;
\* and a clear in one process between the setup write and the setup return of
\* the other leaves state.json missing when setup reports success.
LastWriterWins ==
    [][ profiles_file' # profiles_file =>
          profiles_file' = [ exists |-> TRUE, active_profile |-> active_profile',
                             profiles |-> profiles' ] ]_vars

\* process 1's setup has returned True after a login it recorded in its
\* memory; process 2 recorded a validation from its own memory afterwards, so
\* the document has lost the login; and process 2's clear removed state.json
\* before setup returned
LostLoginAndSession ==
    /\ peer.running = 1
    /\ last.op = "setup" /\ last.returned /\ last.retval = "True" /\ last.wait = "reached"
    /\ profiles[1].authenticated_at # None
    /\ profiles_file.profiles[1].authenticated_at = None
    /\ profiles_file.profiles[1].last_validated # None
    /\ peer.last.op = "clear" /\ peer.last.retval = "True"
    /\ auth_store.state_file = None

\* ---------------------------------------------------------------- C35
\* C35: in every state reached from an empty or a freshly migrated registry
\* by create, delete and set_active, active_profile is null exactly when the
\* registry holds no profile.
ActiveNullIffEmpty == (active_profile = None) <=> (profiles = <<>>)

\* the active profile was deleted while another profile remained
ActiveDeletedOthersRemain ==
    /\ last.op = "delete" /\ last.result = "True"
    /\ last.pre_active = Some(last.id)
    /\ profiles # <<>>
    /\ active_profile # None

\* ---------------------------------------------------------------- C36
\* Two ProfileManager processes constructed on the same data root, empty or
\* legacy, before either of them wrote: both hold what _load read, and each
\* create, delete and set_active works on the caller's own copy and writes
\* the shared profiles.json and profile directories.
RegistryTwoInit ==
    \E root \in DataRoots :
        LET m == _migrate_legacy_layout(root.legacy, root, 1)
            r == _load(m.profiles_file)
        IN /\ now = 1
           /\ n_updates = 0
           /\ profiles_file = m.profiles_file
           /\ fs_profiles = m.fs_profiles
           /\ active_profile = r.active_profile
           /\ profiles = r.profiles
           /\ last = [ op |-> "init", id |-> <<>>, result |-> "None", fields |-> NoKwargs,
                       pre_active |-> None, pre_profiles |-> <<>>, after_create |-> FALSE ]
           /\ data_root = [ legacy |-> {}, info |-> NoInfo, profiles_dir |-> TRUE,
                            start_legacy |-> {}, start_info |-> NoInfo,
                            start_profiles_dir |-> TRUE, triggered |-> FALSE ]
           /\ pc = "idle"
           /\ auth_store = [ state_file |-> None, auth_info |-> None ]
           /\ browser = [ playwright |-> FALSE, context |-> FALSE, waited |-> 0,
                          user_data |-> FALSE ]
           /\ exit_code = None
           /\ library = NoLibrary
           /\ peer = [ running |-> 1, active_profile |-> active_profile, profiles |-> profiles,
                       pc |-> pc, last |-> last, browser |-> browser ]

RegistryTwoNext == Create \/ Delete \/ SetActive \/ Swap

SpecRegistryTwo == RegistryTwoInit /\ [][RegistryTwoNext]_vars

\* C36: under any interleaving of create, delete and set_active calls of two
\* processes that each hold their own loaded copy, every document written to
\* profiles.json has no two records with one id, and an active_profile that
\* is null or the id of a record of that same document.
PersistedConsistent ==
    /\ \A i, j \in 1..Len(profiles_file.profiles) :
           i # j => profiles_file.profiles[i].id # profiles_file.profiles[j].id
    /\ \/ profiles_file.active_profile = None
       \/ HasId(profiles_file.profiles, profiles_file.active_profile[1])

\* process 2 has just written its copy over a document in which process 1
\* had created a profile: the update is lost, the document is consistent
LostCreateConsistent ==
    /\ peer.running = 2
    /\ peer.last.op = "create" /\ peer.last.result = "entry"
    /\ last.op = "set_active" /\ last.result = "None"
    /\ profiles_file = [ exists |-> TRUE, active_profile |-> active_profile,
                         profiles |-> profiles ]
    /\ ~HasId(profiles_file.profiles, peer.last.id)
    /\ HasId(peer.profiles, peer.last.id)

\* ---------------------------------------------------------------- C37
\* C37: a successful delete_profile(id) leaves the directory of every other
\* registered profile, with all it holds (browser_state, state.json,
\* auth_info.json, library.json), as it was, for every id create_profile can
\* derive from a name.  The empty name gives the empty id, whose directory is
\* data/profiles/ itself, so its rmtree takes every profile with it.
DeleteLeavesOthers ==
    [][ (Called("delete") /\ last'.result = "True") =>
          \A i \in 1..Len(profiles) :
              (profiles[i].id # last'.id /\ profiles[i].id \in DOMAIN fs_profiles) =>
                  /\ profiles[i].id \in DOMAIN fs_profiles'
                  /\ fs_profiles'[profiles[i].id] = fs_profiles[profiles[i].id]
      ]_vars

\* ================================================================ the command line
\* main() runs one subcommand and the process ends.  The registry and the
\* AuthManager of the command are those of AuthInit; `setup --name` creates
\* the profile first and makes the AuthManager for its id.

\* the commands whose operation is a call of the AuthManager
AuthOps == { "setup", "validate", "clear" }
\* the commands that work on the ProfileManager, or only print
RegistryOps == { "set_active", "delete", "list", "status", "create" }

\* the subcommand that made the call recorded in last
Command ==
    IF last.op = "setup" THEN (IF last.outer = "re_auth" THEN "reauth" ELSE "setup")
    ELSE last.op

\* what the operation of the command reported: the value it returned, or the
\* exception it raised
Reported == IF last.op \in AuthOps THEN last.retval ELSE last.result

\* the operation of the command has returned or raised, main() has not ended
Done ==
    /\ exit_code = None
    /\ \/ last.op \in RegistryOps /\ pc = "idle"
       \/ last.op \in AuthOps /\ last.returned /\ pc = "idle"

\* the exit status of main(): exit(1) is called for a failed setup and a
\* failed reauth only; an exception nobody catches ends the interpreter with
\* status 1; every other path falls off the end of main()
main_exit(command, reported) ==
    IF command \in { "setup", "reauth" } /\ reported = "False" THEN 1
    ELSE IF reported \in { "ValueError: not found", "ValueError: already exists" } THEN 1
    ELSE 0

\* no command has begun
Fresh == exit_code = None /\ last = NoCall /\ pc = "idle"

\* the command is under way
Running == exit_code = None /\ last.op \in AuthOps \cup {"re_auth"} /\ ~Done

\* list: pm.print_profiles(); return
MainList ==
    /\ Fresh
    /\ last' = Call("list", <<>>, "None", NoKwargs)
    /\ UNCHANGED <<active_profile, profiles, profiles_file, fs_profiles, now, n_updates>>
    /\ UNCHANGED outside

\* status: auth.get_auth_info() and prints
MainStatus ==
    /\ Fresh
    /\ last' = Call("status", <<>>,
                    IF is_authenticated(auth_store) THEN "Yes" ELSE "No", NoKwargs)
    /\ UNCHANGED <<active_profile, profiles, profiles_file, fs_profiles, now, n_updates>>
    /\ UNCHANGED outside

\* set-active --id, delete --id
MainSetActive == Fresh /\ SetActive
MainDelete == Fresh /\ Delete

\* setup --name: pm.create_profile(args.name), then AuthManager(profile_id=entry["id"])
MainCreate ==
    /\ Fresh
    /\ now + InteractiveTimeout <= MaxAuthTime
    /\ \E name \in { n \in Names : Slug(n) = AuthId } :
          /\ create_profile(name)
          /\ IF _find(profiles, Slug(name)) # 0
             THEN UNCHANGED <<auth_store, pc>>
             ELSE /\ auth_store' = [auth_store EXCEPT !.profile_id = Some(Slug(name))]
                  /\ pc' = "m_setup"
    /\ UNCHANGED <<data_root, browser, peer, exit_code, library>>

\* auth.setup_auth(...) of setup --name
MainSetup == setup_auth("m_setup", "none", "none")

\* the calls and steps of setup, validate, clear and reauth
MainAuth ==
    /\ Fresh \/ Running
    /\ \/ SetupCall \/ SetupStep \/ LoginArrives \/ WaitError
       \/ ClearCall \/ ReauthCall \/ ReauthSetup
       \/ ValidateCall \/ ValidateStart \/ ValidateLaunch \/ ValidateGoto \/ ValidateRecord
       \/ ValidateFinally \/ AuthTick

\* main() ends
Exit ==
    /\ Done
    /\ exit_code' = Some(main_exit(Command, Reported))
    /\ UNCHANGED <<active_profile, profiles, profiles_file, fs_profiles, now, n_updates, last,
                   data_root, pc, auth_store, browser, peer, library>>

MainNext ==
    \/ MainList \/ MainStatus \/ MainSetActive \/ MainDelete \/ MainCreate \/ MainSetup
    \/ MainAuth \/ Exit

SpecMain == AuthInit /\ [][MainNext]_vars

\* the operation of the command succeeded
Succeeded ==
    \/ last.op \in { "list", "status" }
    \/ last.op = "set_active" /\ last.result = "None"
    \/ last.op = "delete" /\ last.result = "True"
    \/ last.op \in AuthOps /\ last.retval = "True"

\* C31: each subcommand exits with status 0 when its operation succeeded and
\* with a non-zero status when its operation reported a failure.  validate,
\* clear and delete end with status 0 whatever their operation returned.
ExitReflectsOutcome ==
    [][ exit_code' # exit_code => (exit_code' = Some(0) <=> Succeeded) ]_vars

CleanupIds == { AuthId, DefaultId }

\* an item of the cleanup list: the directory it is in (None for data/) and
\* its name
Item(dir, name) == [ dir |-> dir, name |-> name ]

\* the names a profile directory can hold, browser_state/ aside
ProfileFiles == { "state.json", "auth_info.json", "library.json" }
\* the names the data root can hold, browser_state/, profiles/ and profiles.json aside
RootFiles == { "state.json", "sessions.json", "library.json", "auth_info.json" }

\* _scan_profile_dir(profile_dir, paths, preserve_library): what is in
\* browser_state/, auth_info.json, and library.json unless it is preserved
_scan_profile_dir(fs, d, preserve_library) ==
    { Item(Some(d), n) : n \in fs[d] \cap
          ( { "state.json", "auth_info.json" }
            \cup (IF preserve_library THEN {} ELSE { "library.json" }) ) }

\* get_cleanup_paths(preserve_library): for a profile, the scan of its
\* directory; else the scan of every directory under data/profiles/, what
\* data/browser_state/ holds, sessions.json, library.json unless preserved,
\* auth_info.json, and every other entry of data/ (profiles/ and
\* profiles.json among them)
get_cleanup_paths(profile_id, preserve_library) ==
    IF TruthyStr(profile_id)
    THEN IF profile_id[1] \in DOMAIN fs_profiles
         THEN _scan_profile_dir(fs_profiles, profile_id[1], preserve_library)
         ELSE {}
    ELSE UNION { _scan_profile_dir(fs_profiles, d, preserve_library) : d \in DOMAIN fs_profiles }
         \cup { Item(None, n) : n \in data_root.legacy \cap
                  ( { "state.json", "sessions.json", "auth_info.json" }
                    \cup (IF preserve_library THEN {} ELSE { "library.json" }) ) }
         \cup (IF data_root.profiles_dir THEN { Item(None, "profiles") } ELSE {})
         \cup (IF profiles_file.exists THEN { Item(None, "profiles.json") } ELSE {})

\* the deletions that do not raise, applied to the directories under
\* data/profiles/: unlink of a listed file, rmtree of data/profiles/
DeletedProfiles(fs, gone) ==
    IF Item(None, "profiles") \in gone THEN <<>>
    ELSE [ d \in DOMAIN fs |-> { n \in fs[d] : Item(Some(d), n) \notin gone } ]

\* perform_cleanup(preserve_library, dry_run); failing are the listed items
\* whose deletion raises and which stay
perform_cleanup(profile_id, preserve_library, dry_run, failing) ==
    LET items == get_cleanup_paths(profile_id, preserve_library)
        gone == items \ failing
        remade == ~preserve_library /\ failing = {} /\ ~TruthyStr(profile_id)
    IN /\ failing \subseteq items
       /\ last' = [ op |-> "cleanup", profile_id |-> profile_id,
                    preserve_library |-> preserve_library, dry_run |-> dry_run,
                    listed |-> items,
                    deleted_count |-> IF dry_run THEN 0 ELSE Cardinality(gone),
                    failed_count |-> IF dry_run THEN 0 ELSE Cardinality(failing) ]
       /\ IF dry_run
          THEN UNCHANGED <<fs_profiles, data_root, profiles_file>>
          ELSE /\ fs_profiles' = DeletedProfiles(fs_profiles, gone)
               /\ data_root' =
                    [ data_root EXCEPT
                        !.legacy = { n \in @ : Item(None, n) \notin gone },
                        !.profiles_dir = (@ /\ Item(None, "profiles") \notin gone) \/ remade ]
               /\ profiles_file' =
                    IF Item(None, "profiles.json") \in gone
                    THEN [ exists |-> FALSE, active_profile |-> None, profiles |-> <<>> ]
                    ELSE profiles_file
       /\ UNCHANGED <<active_profile, profiles, now, n_updates, pc, auth_store, browser, peer,
                      exit_code, library>>

\* the data directory of an installation: any of the two profiles with a
\* browser_state/ and any of its files, any legacy remnant at the data root
CleanupInit ==
    /\ \E present \in SUBSET CleanupIds, root \in SUBSET (RootFiles \cup {"browser_state"}),
          has_registry \in BOOLEAN :
          /\ "state.json" \in root => "browser_state" \in root
          /\ fs_profiles \in [ present -> { {"browser_state"} \cup f : f \in SUBSET ProfileFiles } ]
          /\ data_root = [ legacy |-> root, info |-> NoInfo, profiles_dir |-> TRUE,
                           start_legacy |-> {}, start_info |-> NoInfo,
                           start_profiles_dir |-> TRUE, triggered |-> FALSE ]
          /\ profiles_file = [ exists |-> has_registry, active_profile |-> None,
                               profiles |-> <<>> ]
    /\ active_profile = None
    /\ profiles = <<>>
    /\ now = 1
    /\ n_updates = 0
    /\ pc = "idle"
    /\ auth_store = [ state_file |-> None, auth_info |-> None ]
    /\ browser = [ playwright |-> FALSE, context |-> FALSE ]
    /\ peer = None
    /\ exit_code = None
    /\ library = NoLibrary
    /\ last = [ op |-> "init" ]

\* --confirm, with or without --profile and --preserve-library; at most one
\* deletion raises
Cleanup ==
    \E profile_id \in { None } \cup { Some(d) : d \in CleanupIds },
       preserve_library \in BOOLEAN :
        \E failing \in { {} } \cup
                       { {i} : i \in get_cleanup_paths(profile_id, preserve_library) } :
            perform_cleanup(profile_id, preserve_library, FALSE, failing)

\* the call with dry_run=True
CleanupDryRun ==
    \E profile_id \in { None } \cup { Some(d) : d \in CleanupIds },
       preserve_library \in BOOLEAN :
        perform_cleanup(profile_id, preserve_library, TRUE, {})

CleanupNext == Cleanup \/ CleanupDryRun

SpecCleanup == CleanupInit /\ [][CleanupNext]_vars

\* every library.json there is, at the data root and in the profile
\* directories
Libraries(root, fs) ==
    { Item(None, n) : n \in root.legacy \cap { "library.json" } }
    \cup { Item(Some(d), "library.json") : d \in { e \in DOMAIN fs : "library.json" \in fs[e] } }

\* C32: perform_cleanup with preserve_library=True deletes no library.json,
\* at the data root or in a profile directory, for one profile and for all
\* data; with dry_run=True it deletes nothing.  The all-data cleanup lists
\* data/profiles/ among the other entries of data/ and removes it whole,
\* with the library.json of every profile.
CleanupPreservesLibrary ==
    [][ /\ (last'.op = "cleanup" /\ last'.preserve_library /\ last' # last) =>
              Libraries(data_root, fs_profiles)
                  \subseteq Libraries(data_root', fs_profiles')
        /\ (last'.op = "cleanup" /\ last'.dry_run /\ last' # last) =>
              UNCHANGED <<fs_profiles, data_root, profiles_file>>
      ]_vars

\* ================================================================ debug_skill.py
\* The smoke-test runner.  last is the SmokeTester: its two options, the
\* results recorded so far, _browser_failed, the number of notebooks the
\* library holds, and whether validate_all of the link validator was called;
\* pc is the check that runs next.  What a check finds (a missing .venv, a
\* stale state.json, a redirect to the login page) is the environment's
\* choice among the statuses the check can return.

\* notebooks in the library the runner looks at
MaxLinks == 2

SmokeTestResult(layer, status) == [ layer |-> layer, status |-> status ]

\* SmokeTester(run_browser, check_links), as main() constructs it
SmokeInit ==
    /\ \E run_browser \in BOOLEAN, check_links \in BOOLEAN, count \in 0..MaxLinks :
          last = [ op |-> "smoke", run_browser |-> run_browser, check_links |-> check_links,
                   results |-> <<>>, _browser_failed |-> FALSE, count |-> count,
                   validated |-> FALSE ]
    /\ pc = "_check_venv"
    /\ exit_code = None
    /\ library = NoLibrary
    /\ active_profile = None
    /\ profiles = <<>>
    /\ profiles_file = [ exists |-> FALSE, active_profile |-> None, profiles |-> <<>> ]
    /\ fs_profiles = <<>>
    /\ now = 1
    /\ n_updates = 0
    /\ data_root = [ legacy |-> {}, info |-> NoInfo, profiles_dir |-> TRUE, start_legacy |-> {},
                     start_info |-> NoInfo, start_profiles_dir |-> TRUE, triggered |-> FALSE ]
    /\ auth_store = [ state_file |-> None, auth_info |-> None ]
    /\ browser = [ playwright |-> FALSE, context |-> FALSE ]
    /\ peer = None

\* what the runner leaves alone
SmokeFrame ==
    UNCHANGED <<active_profile, profiles, profiles_file, fs_profiles, now, n_updates, data_root,
                auth_store, browser, peer, library>>

\* result = fn(); self.results.append(result), for a check of one layer that
\* returns one of these statuses
Check(at, next, layer, statuses) ==
    /\ pc = at
    /\ \E status \in statuses :
          last' = [last EXCEPT !.results = Append(@, SmokeTestResult(layer, status))]
    /\ pc' = next
    /\ UNCHANGED exit_code
    /\ SmokeFrame

\* Layer 1
_check_venv == Check("_check_venv", "_check_patchright", "env", {"pass", "fail"})
_check_patchright == Check("_check_patchright", "_check_requirements_file", "env", {"pass", "fail"})
_check_requirements_file ==
    Check("_check_requirements_file", "_check_auth_state", "env", {"pass", "warn"})
\* Layer 2
_check_auth_state == Check("_check_auth_state", "_check_library", "auth", {"pass", "warn", "fail"})
\* Layer 3: an empty library is a warning
_check_library ==
    Check("_check_library", "_check_active_notebook", "library",
          IF last.count = 0 THEN {"warn", "fail"} ELSE {"pass", "fail"})
_check_active_notebook ==
    Check("_check_active_notebook", "_check_browser_launch", "library", {"pass", "warn", "fail"})

\* self._browser_failed = True is in the except branch only
BrowserFailed(status, raised) == raised

\* Layer 4: skipped without run_browser; else the page is reached (pass),
\* the login page is (fail), or something raises (fail, _browser_failed)
_check_browser_launch ==
    /\ pc = "_check_browser_launch"
    /\ \E found \in IF last.run_browser THEN { "reached", "login", "raised" } ELSE { "skip" } :
          LET status == CASE found = "skip" -> "skip"
                          [] found = "reached" -> "pass"
                          [] OTHER -> "fail"
          IN last' = [last EXCEPT
                        !.results = Append(@, SmokeTestResult("browser", status)),
                        !._browser_failed = BrowserFailed(status, found = "raised")]
    /\ pc' = "_check_notebook_links"
    /\ UNCHANGED exit_code
    /\ SmokeFrame

\* the statuses _check_notebook records
LinkStatuses == { "active", "inactive", "error" }

\* validator.results after validate_all: nothing when it returned early (no
\* login), else one status for each notebook
LinkResults(count) ==
    { <<>> } \cup [ 1..count -> { SmokeTestResult("links", st) : st \in LinkStatuses } ]

\* Layer 5: one skip result without check_links, after a browser failure, or
\* on an empty library; else validate_all and a result for each notebook it
\* checked; a raise gives one fail result
_check_notebook_links ==
    /\ pc = "_check_notebook_links"
    /\ IF ~last.check_links \/ last._browser_failed
       THEN last' = [last EXCEPT !.results = Append(@, SmokeTestResult("links", "skip"))]
       ELSE \/ last' = [last EXCEPT !.results = Append(@, SmokeTestResult("links", "fail"))]
            \/ /\ last.count = 0
               /\ last' = [last EXCEPT !.results = Append(@, SmokeTestResult("links", "skip"))]
            \/ /\ last.count > 0
               /\ \E found \in LinkResults(last.count) :
                     last' = [last EXCEPT !.results = @ \o found, !.validated = TRUE]
            \/ /\ last.count > 0
               /\ last' = [last EXCEPT !.results = Append(@, SmokeTestResult("links", "fail")),
                                       !.validated = TRUE]
    /\ pc' = "exit"
    /\ UNCHANGED exit_code
    /\ SmokeFrame

\* sys.exit(1 if any(r.status == "fail" for r in tester.results) else 0)
SmokeExit ==
    /\ pc = "exit"
    /\ exit_code' = Some(IF \E i \in 1..Len(last.results) : last.results[i].status = "fail"
                         THEN 1 ELSE 0)
    /\ pc' = "done"
    /\ UNCHANGED last
    /\ SmokeFrame

SmokeNext ==
    \/ _check_venv \/ _check_patchright \/ _check_requirements_file \/ _check_auth_state
    \/ _check_library \/ _check_active_notebook \/ _check_browser_launch
    \/ _check_notebook_links \/ SmokeExit

SpecSmoke == SmokeInit /\ [][SmokeNext]_vars

\* the place of a layer in the run
LayerRank(layer) ==
    CASE layer = "env" -> 1 [] layer = "auth" -> 2 [] layer = "library" -> 3
      [] layer = "browser" -> 4 [] layer = "links" -> 5

\* C33: the results are recorded in the order environment, auth, library,
\* browser, links; whenever the browser check has reported fail, the link
\* layer records a skip and validate_all is not called; the process exits
\* with a non-zero status exactly when a recorded result is a fail.  A
\* browser check that ends on the login page reports fail without setting
\* _browser_failed, and the link layer then runs.
SmokeLayers ==
    /\ \A i, j \in 1..Len(last.results) :
           i < j => LayerRank(last.results[i].layer) <= LayerRank(last.results[j].layer)
    /\ (\E i \in 1..Len(last.results) :
           last.results[i].layer = "browser" /\ last.results[i].status = "fail") =>
          /\ ~last.validated
          /\ \A j \in 1..Len(last.results) :
                 last.results[j].layer = "links" => last.results[j].status = "skip"
    /\ exit_code # None =>
          (exit_code # Some(0) <=>
              \E i \in 1..Len(last.results) : last.results[i].status = "fail")

\* ================================================================ notebook_manager.py
\* The NotebookLibrary of one profile.  library.notebooks is the dict
\* self.notebooks in its insertion order, a sequence of records;
\* library.active_notebook_id is None or Some(id); library.file is what
\* _save_library wrote last.  A field a record does not have, or has as
\* null or as the empty string, is <<>>.  Of a notebook the fields id, url,
\* name, use_count and updated_at are kept.

\* increments of a use count
MaxUse == 1

NoField == <<>>
\* a JSON integer, and a value that is present and is no integer (the string
\* a CSV cell is read as)
IntV(n) == <<"int", n>>
StrV(n) == <<"str", n>>
IsInt(c) == c # NoField /\ c[1] = "int"

NotebookSeg == <<"n", "o", "t", "e", "b", "o", "o", "k">>
HexChars == { "a", "b", "c", "d", "e", "f", "0", "1", "2", "3", "4", "5", "6", "7", "8", "9", "-" }

\* a url is the sequence of its path segments: one without a notebook
\* segment, and one of a notebook with a query string
LibraryUrls == { << <<"x">> >>, << NotebookSeg, <<"a", "?">> >> }
LibraryNames == { <<"A">>, <<"B", " ", "_">> }
LibraryIds == { Slug(n) : n \in LibraryNames }

\* the longest prefix of the segment that [a-f0-9-]+ matches
HexPrefix(seg) ==
    LET n == CHOOSE k \in 0..Len(seg) :
                 /\ \A j \in 1..k : seg[j] \in HexChars
                 /\ k = Len(seg) \/ seg[k + 1] \notin HexChars
    IN SubSeq(seg, 1, n)

\* re.search(r'/notebook/([a-f0-9-]+)', url): group 1 of the first match, or
\* None
_extract_id_from_url(url) ==
    LET hits == { i \in 1..(Len(url) - 1) : url[i] = NotebookSeg /\ HexPrefix(url[i + 1]) # <<>> }
    IN IF hits = {} THEN NoField
       ELSE HexPrefix(url[(CHOOSE i \in hits : \A j \in hits : i <= j) + 1])

\* notebook_id in self.notebooks, and the place of the key in the dict
Position(nbs, notebook_id) == _find(nbs, notebook_id)

\* the dict without the key
WithoutKey(nbs, notebook_id) ==
    LET keep == { i \in 1..Len(nbs) : nbs[i].id # notebook_id }
        f[i \in 0..Len(nbs)] ==
            IF i = 0 THEN <<>>
            ELSE IF i \in keep THEN Append(f[i - 1], nbs[i]) ELSE f[i - 1]
    IN f[Len(nbs)]

\* _save_library(): notebooks and active_notebook_id, written whole
_save_library(nbs, act) ==
    [ notebooks |-> nbs, active_notebook_id |-> act,
      file |-> [ exists |-> TRUE, notebooks |-> nbs, active_notebook_id |-> act ] ]

\* NotebookLibrary() on a profile without library.json: _load_library saves
\* the empty library
LibraryInit ==
    /\ library = _save_library(<<>>, None)
    /\ last = [ op |-> "init" ]
    /\ active_profile = Some(DefaultId)
    /\ profiles = << Entry(DefaultId, DefaultName, 1) >>
    /\ profiles_file = _save(active_profile, profiles)
    /\ fs_profiles = MkdirBrowserState(<<>>, DefaultId)
    /\ now = 1
    /\ n_updates = 0
    /\ data_root = [ legacy |-> {}, info |-> NoInfo, profiles_dir |-> TRUE, start_legacy |-> {},
                     start_info |-> NoInfo, start_profiles_dir |-> TRUE, triggered |-> FALSE ]
    /\ pc = "idle"
    /\ auth_store = [ state_file |-> None, auth_info |-> None ]
    /\ browser = [ playwright |-> FALSE, context |-> FALSE ]
    /\ peer = None
    /\ exit_code = None

LibraryFrame ==
    UNCHANGED <<active_profile, profiles, profiles_file, fs_profiles, now, n_updates, data_root,
                pc, auth_store, browser, peer, exit_code>>

\* add_notebook(url, name, ...)
add_notebook(url, name) ==
    LET extracted == _extract_id_from_url(url)
        notebook_id == IF extracted # NoField THEN extracted ELSE Slug(name)
        notebook == [ id |-> notebook_id, url |-> url, name |-> name, use_count |-> IntV(0),
                      updated_at |-> <<now>> ]
    IN IF Position(library.notebooks, notebook_id) # 0
       THEN /\ last' = [ op |-> "add", id |-> notebook_id, result |-> "ValueError: already exists" ]
            /\ UNCHANGED library
       ELSE LET nbs == Append(library.notebooks, notebook)
            IN /\ library' = _save_library(nbs, IF Len(nbs) = 1 THEN Some(notebook_id)
                                                ELSE library.active_notebook_id)
               /\ last' = [ op |-> "add", id |-> notebook_id, result |-> "notebook" ]

\* remove_notebook(notebook_id)
remove_notebook(notebook_id) ==
    IF Position(library.notebooks, notebook_id) = 0
    THEN /\ last' = [ op |-> "remove", id |-> notebook_id, result |-> "False" ]
         /\ UNCHANGED library
    ELSE LET nbs == WithoutKey(library.notebooks, notebook_id)
             act == IF library.active_notebook_id = Some(notebook_id)
                    THEN (IF nbs # <<>> THEN Some(nbs[1].id) ELSE None)
                    ELSE library.active_notebook_id
         IN /\ library' = _save_library(nbs, act)
            /\ last' = [ op |-> "remove", id |-> notebook_id, result |-> "True" ]

\* update_notebook(notebook_id, name=..., url=...): a field that is not None
\* is assigned, updated_at is set
update_notebook(notebook_id, name, url) ==
    LET i == Position(library.notebooks, notebook_id) IN
    IF i = 0
    THEN /\ last' = [ op |-> "update", id |-> notebook_id, result |-> "ValueError: not found" ]
         /\ UNCHANGED library
    ELSE /\ library' = _save_library(
                [library.notebooks EXCEPT
                    ![i] = [@ EXCEPT !.name = IF name # Absent THEN name[1] ELSE @,
                                     !.url = IF url # Absent THEN url[1] ELSE @,
                                     !.updated_at = <<now>>]],
                library.active_notebook_id)
         /\ last' = [ op |-> "update", id |-> notebook_id, result |-> "notebook" ]

\* select_notebook(notebook_id)
select_notebook(notebook_id) ==
    IF Position(library.notebooks, notebook_id) = 0
    THEN /\ last' = [ op |-> "select", id |-> notebook_id, result |-> "ValueError: not found" ]
         /\ UNCHANGED library
    ELSE /\ library' = _save_library(library.notebooks, Some(notebook_id))
         /\ last' = [ op |-> "select", id |-> notebook_id, result |-> "notebook" ]

\* notebook['use_count'] += 1: KeyError without the key, TypeError on a string
Incremented(c) ==
    IF c = NoField THEN [ raised |-> "KeyError", value |-> c ]
    ELSE IF ~IsInt(c) THEN [ raised |-> "TypeError", value |-> c ]
    ELSE [ raised |-> "none", value |-> IntV(c[2] + 1) ]

\* increment_use_count(notebook_id)
increment_use_count(notebook_id) ==
    LET i == Position(library.notebooks, notebook_id) IN
    IF i = 0
    THEN /\ last' = [ op |-> "increment", id |-> notebook_id, result |-> "ValueError: not found" ]
         /\ UNCHANGED library
    ELSE LET c == library.notebooks[i].use_count
             inc == Incremented(c)
         IN /\ IsInt(c) => c[2] < MaxUse
            /\ IF inc.raised # "none"
               THEN /\ last' = [ op |-> "increment", id |-> notebook_id, result |-> inc.raised ]
                    /\ UNCHANGED library
               ELSE /\ library' = _save_library(
                           [library.notebooks EXCEPT
                               ![i] = [@ EXCEPT !.use_count = inc.value]],
                           library.active_notebook_id)
                    /\ last' = [ op |-> "increment", id |-> notebook_id, result |-> "notebook" ]

\* get_stats(): total_use_count += notebook['use_count'] over the notebooks
\* in their order; the first record without an integer there raises
get_stats ==
    LET nbs == library.notebooks
        bad == { i \in 1..Len(nbs) : ~IsInt(nbs[i].use_count) }
    IN /\ last' = [ op |-> "stats", id |-> NoField,
                    result |-> IF bad = {} THEN "stats"
                               ELSE Incremented(
                                      nbs[CHOOSE i \in bad : \A j \in bad : i <= j].use_count
                                    ).raised ]
       /\ UNCHANGED library

\* _validate_import_notebooks(notebooks): the valid entries in their order
\* and the numbers of the entries in error; an id is seen once an entry
\* carries it, valid or not
_validate_import_notebooks(raw) ==
    LET f[i \in 0..Len(raw)] ==
            IF i = 0 THEN [ valid |-> <<>>, errors |-> {}, seen_ids |-> {} ]
            ELSE LET nb == raw[i]
                     before == f[i - 1]
                     missing == nb.id = NoField \/ nb.url = NoField \/ nb.name = NoField
                     duplicate == nb.id # NoField /\ nb.id \in before.seen_ids
                 IN [ valid |-> IF missing \/ duplicate THEN before.valid
                                ELSE Append(before.valid, nb),
                      errors |-> IF missing \/ duplicate THEN before.errors \cup {i}
                                 ELSE before.errors,
                      seen_ids |-> IF nb.id # NoField THEN before.seen_ids \cup {nb.id}
                                   ELSE before.seen_ids ]
    IN f[Len(raw)]

\* an import that replaces in either strategy
Replaces_always(strategy) == TRUE

\* if strategy == 'overwrite'
Replaces(strategy) == strategy = "overwrite"

\* the setdefault calls for an entry whose id is new
WithDefaults(nb, t) ==
    [ nb EXCEPT !.updated_at = IF @ = NoField THEN <<t>> ELSE @,
                !.use_count = IF @ = NoField THEN IntV(0) ELSE @ ]

\* import_notebooks(file_path, strategy) for a file that parses to raw
import_notebooks(raw, strategy) ==
    LET checked == _validate_import_notebooks(raw)
        valid == checked.valid
        f[i \in 0..Len(valid)] ==
            IF i = 0 THEN [ notebooks |-> library.notebooks, imported |-> 0, skipped |-> 0 ]
            ELSE LET nb == valid[i]
                     before == f[i - 1]
                     at == Position(before.notebooks, nb.id)
                 IN IF at # 0
                    THEN IF Replaces(strategy)
                         THEN [ before EXCEPT
                                  !.notebooks[at] = [nb EXCEPT !.updated_at = <<now>>],
                                  !.imported = @ + 1 ]
                         ELSE [ before EXCEPT !.skipped = @ + 1 ]
                    ELSE [ before EXCEPT
                             !.notebooks = Append(@, WithDefaults(nb, now)),
                             !.imported = @ + 1 ]
        done == f[Len(valid)]
    IN /\ library' = IF done.imported > 0
                     THEN _save_library(done.notebooks, library.active_notebook_id)
                     ELSE [library EXCEPT !.notebooks = done.notebooks]
       /\ last' = [ op |-> "import", strategy |-> strategy, raw |-> raw,
                    imported |-> done.imported, skipped |-> done.skipped,
                    errors |-> checked.errors ]

\* the entries of an import file: complete ones with a use count that is
\* missing, an integer or a string, and ones without id, url or name
ImportUrl == << NotebookSeg, <<"b">> >>
ImportEntries ==
    { [ id |-> i, url |-> ImportUrl, name |-> <<"A">>, use_count |-> c,
        updated_at |-> <<0>> ] :
          i \in LibraryIds, c \in { NoField, IntV(0), StrV(0) } }
    \cup { [ id |-> e[1], url |-> e[2], name |-> e[3], use_count |-> IntV(0),
             updated_at |-> <<0>> ] :
             e \in { << NoField, ImportUrl, <<"A">> >>, << <<"a">>, NoField, <<"A">> >>,
                     << <<"a">>, ImportUrl, NoField >> } }

\* the files: no entry, one entry, and two entries, the first with an
\* integer use count and the second complete
ImportFiles ==
    { <<>> } \cup { <<e>> : e \in ImportEntries }
    \cup ({ e \in ImportEntries : e.use_count = IntV(0) /\ e.id # <<"b", "-", "-">> }
          \X { e \in ImportEntries :
                  /\ e.url # NoField /\ e.name # NoField
                  /\ e.id = <<"a">> => e.use_count = IntV(0)
                  /\ e.id # <<"a">> => e.use_count = NoField })

Add == (\E url \in LibraryUrls, name \in LibraryNames : add_notebook(url, name)) /\ LibraryFrame
Remove == (\E notebook_id \in LibraryIds : remove_notebook(notebook_id)) /\ LibraryFrame
UpdateNotebook ==
    /\ \E notebook_id \in LibraryIds,
          kw \in { <<Absent, Absent>>, <<Given(<<"A">>), Absent>>,
                   <<Absent, Given(<< <<"x">> >>)>> } :
            update_notebook(notebook_id, kw[1], kw[2])
    /\ LibraryFrame
Select == (\E notebook_id \in LibraryIds : select_notebook(notebook_id)) /\ LibraryFrame
Increment == (\E notebook_id \in LibraryIds : increment_use_count(notebook_id)) /\ LibraryFrame
Stats == get_stats /\ LibraryFrame
Import ==
    /\ \E raw \in ImportFiles, strategy \in { "merge", "overwrite" } :
          import_notebooks(raw, strategy)
    /\ LibraryFrame

LibraryNext == Add \/ Remove \/ UpdateNotebook \/ Select \/ Increment \/ Stats \/ Import

SpecLibrary == LibraryInit /\ [][LibraryNext]_vars

\* C34: an import with strategy 'merge' leaves every notebook already in the
\* library as it was and skips the entries whose id exists, one with strategy
\* 'overwrite' replaces such a notebook by the entry; in both, imported +
\* skipped is the number of valid entries of the file, the entries without
\* id, url or name and the ones that repeat an id of the file are the errors
\* and are not stored, and active_notebook_id is unchanged.
ImportMergesOrOverwrites ==
    [][ last'.op = "import" =>
          LET raw == last'.raw
              old == library.notebooks
              new == library'.notebooks
              Complete(i) ==
                  raw[i].id # NoField /\ raw[i].url # NoField /\ raw[i].name # NoField
              Repeats(i) ==
                  raw[i].id # NoField /\ \E j \in 1..(i - 1) : raw[j].id = raw[i].id
              ValidIdx == { i \in 1..Len(raw) : Complete(i) /\ ~Repeats(i) }
              Existing(id) == \E k \in 1..Len(old) : old[k].id = id
              NewIdx == { i \in ValidIdx : ~Existing(raw[i].id) }
          IN /\ last'.errors = (1..Len(raw)) \ ValidIdx
             /\ last'.imported + last'.skipped = Cardinality(ValidIdx)
             /\ last'.skipped = IF last'.strategy = "merge"
                                THEN Cardinality(ValidIdx \ NewIdx) ELSE 0
             /\ library'.active_notebook_id = library.active_notebook_id
             /\ Len(new) = Len(old) + Cardinality(NewIdx)
             /\ \A k \in 1..Len(old) :
                   LET from == { i \in ValidIdx : raw[i].id = old[k].id }
                   IN IF last'.strategy = "merge" \/ from = {}
                      THEN new[k] = old[k]
                      ELSE \E i \in from : new[k] = [raw[i] EXCEPT !.updated_at = <<now>>]
             /\ \A k \in (Len(old) + 1)..Len(new) :
                   \E i \in NewIdx : /\ new[k].id = raw[i].id
                                     /\ new[k].url = raw[i].url
                                     /\ new[k].name = raw[i].name
      ]_vars

\* an overwriting import of a file of two entries, the first in error, has
\* replaced the stored notebook that has the id of the second
OverwriteReplacedOne ==
    /\ last.op = "import"
    /\ last.strategy = "overwrite"
    /\ Len(last.raw) = 2
    /\ last.errors = {1}
    /\ last.imported = 1
    /\ \E k \in 1..Len(library.notebooks) :
          /\ library.notebooks[k].id = last.raw[2].id
          /\ library.notebooks[k] = [last.raw[2] EXCEPT !.updated_at = <<now>>]
    /\ Len(library.notebooks) = 2

\* C39: every stored notebook has an integer use_count, and
\* active_notebook_id is None or the id of a stored notebook.
StoredUseCountInteger ==
    /\ \A k \in 1..Len(library.notebooks) : IsInt(library.notebooks[k].use_count)
    /\ \/ library.active_notebook_id = None
       \/ \E k \in 1..Len(library.notebooks) :
             library.active_notebook_id = Some(library.notebooks[k].id)

====
